---- MODULE Spec2Model ----
(***************************************************************************)
(* Verification model of the HAP SDK (TypeScript).                         *)
(*                                                                         *)
(*   SpecClient : HapClient (src/src/runtime-guards/StopGuard.ts 924-1236) *)
(*                several calls in flight on one client, interleaving at   *)
(*                the await points of makeRequest (the network call and    *)
(*                the backoff sleep), wall-clock time as a discrete clock. *)
(*   SpecGuard  : StopGuard.ensureClarified (StopGuard.ts 92-193) against  *)
(*                an arbitrary HapProvider and QuestionEngine.             *)
(*   SpecRedact : the messages of the errors HapClient throws.             *)
(*   SpecLocal  : LocalHapProvider.requestInquiryBlueprint                 *)
(*                (src/src/providers/exampleSelectors.ts 460-646), one     *)
(*                call at a time, over any source and selector.            *)
(*   SpecLoad   : the same with overlapping calls, interleaving at the     *)
(*                await of ensureBlueprintsLoaded.                         *)
(*   SpecMetrics: LocalHapProvider.sendFeedback (660-728).                 *)
(*   SpecSnapshot: sendFeedback and requestInquiryBlueprint on a provider  *)
(*                with a metrics logger.                                   *)
(*   SpecSwap   : LocalHapProvider given malformed requests as well.       *)
(*   SpecAction : GuardedAction (src/src/runtime-guards/GuardedAction.ts). *)
(*   SpecBridge : StopGuard.ensureClarified whose results are handed to    *)
(*                GuardedAction.fromClarificationResult.                   *)
(*   SpecLogger : QuestionOutcomeLogger.log and clear                      *)
(*                (src/src/metrics/QuestionOutcomeLogger.ts).              *)
(*   SpecRecover: HapClient whose network recovers, with fairness of the   *)
(*                clock and of the event loop.                             *)
(***************************************************************************)
EXTENDS Integers, Sequences, FiniteSets, TLC

(***************************************************************************)
(* Bounds of the model.  The client configuration is scaled down: the      *)
(* defaults of the source (3 retries, 1000 ms, threshold 5, 60000 ms) are  *)
(* replaced by small values, one clock tick standing for retryDelay ms.    *)
(***************************************************************************)
MaxRetries == 3
MaxConcurrentRetries == 1
MaxThreshold == 2
RetryDelay == 1
ResetTimeout == 2
MaxTime == 7
MaxConcurrentTime == 3
NSlots == 2
MaxFetches == 4
MaxGuardCalls == 3
NGuardSlots == 2
NHooks == 2
MaxKeyLen == 3
MaxTextLen == 3
MaxBlueprints == 2
MaxVersion == 2
NLocalSlots == 2
MaxLocalCalls == 2
MaxFeedback == 3
MaxTurns == 2
MaxObjects == 2
MaxProceeds == 2
MaxCapacity == 3
MaxLogged == 5

Null == -1

Slots == 1..NSlots

Min(a, b) == IF a < b THEN a ELSE b

RECURSIVE Pow2(_)
Pow2(n) == IF n = 0 THEN 1 ELSE 2 * Pow2(n - 1)

VARIABLES
    config,                \* the HapClientConfig the client was constructed with
    callers,               \* how many calls the integrator keeps in flight at once
    healthy,               \* whether every network attempt settling from now on succeeds
    started,               \* network attempts set aside for the calls admitted so far
    circuitState,          \* HapClient.circuitState
    consecutiveFailures,   \* HapClient.consecutiveFailures
    circuitOpenedAt,       \* HapClient.circuitOpenedAt (Null or a time)
    now,                   \* Date.now()
    calls,                 \* the calls in flight: one makeRequest frame per slot
    ev,                    \* history: the last step of the client and what its caller saw
    failRun,               \* history: breaker-counted failures since the last success or reset
    probe,                 \* history: slot of the call that moved the breaker to half-open
    middleware,            \* StopGuard.middleware: the behaviour of each hook
    gcalls,                \* the ensureClarified invocations in flight
    gstarted,              \* number of ensureClarified invocations made
    providerCalls,         \* calls made to provider.requestInquiryBlueprint
    engineCalls,           \* calls made to questionEngine.generateQuestion
    hookLog,               \* what the hooks received in the last invokeMiddleware
    gev,                   \* history: the last completed ensureClarified and its outcome
    stops,                 \* history: ensureClarified invocations made with stopTrigger = true
    aborted,               \* history: those of them that ended before the question engine was called
    providerArg,           \* the arguments of the last call to provider.requestInquiryBlueprint
    engineArg,             \* the arguments of the last call to questionEngine.generateQuestion
    apiKey,                \* HapClient.apiKey, a string as a sequence of characters
    thrown,                \* the class and message of the error a call of the client threw
    source,                \* what LocalHapProvider's blueprintSource holds
    selectorFn,            \* LocalHapProvider's config.selector: which selector it is
    metricsLogger,         \* whether LocalHapProvider's config.metricsLogger is there
    blueprintCache,        \* LocalHapProvider.blueprintCache, in the Map's insertion order
    metricsCache,          \* LocalHapProvider.metricsCache
    lcallers,              \* how many calls the users of the local provider keep in flight
    lcalls,                \* the requestInquiryBlueprint calls of the local provider in flight
    lstarted,              \* requestInquiryBlueprint calls made on the local provider
    loads,                 \* loadBlueprints calls the local provider has made
    loaded,                \* history: those of them that have handed over their blueprints
    feedbacks,             \* sendFeedback calls made on the local provider
    lev,                   \* history: the last step of a requestInquiryBlueprint of the local provider
    fhist,                 \* history: the feedback accepted so far, per blueprint id
    fev,                   \* history: the last sendFeedback of the local provider
    objects,               \* the StoppedAction / ResolvedAction objects built so far
    executed,              \* how many times proceed has run the action handed to it
    aev,                   \* history: the last operation on a guarded action and its outcome
    maxBufferSize,         \* QuestionOutcomeLogger.maxBufferSize
    buffer,                \* QuestionOutcomeLogger.buffer
    logged                 \* history: every outcome handed to log, in order

clientVars == <<config, callers, healthy, started, circuitState, consecutiveFailures, circuitOpenedAt, now, calls, ev, failRun, probe>>
guardVars == <<middleware, gcalls, gstarted, providerCalls, engineCalls, hookLog, gev,
               stops, aborted, providerArg, engineArg>>
redactVars == <<apiKey, thrown>>
localVars == <<source, selectorFn, metricsLogger, blueprintCache, metricsCache, lcallers, lcalls, lstarted,
               loads, loaded, feedbacks, lev, fhist, fev>>
actionVars == <<objects, executed, aev>>
loggerVars == <<maxBufferSize, buffer, logged>>
nonClientVars == <<guardVars, redactVars, localVars, actionVars, loggerVars>>
nonGuardVars == <<clientVars, redactVars, localVars, actionVars, loggerVars>>
nonRedactVars == <<clientVars, guardVars, localVars, actionVars, loggerVars>>
nonLocalVars == <<clientVars, guardVars, redactVars, actionVars, loggerVars>>
nonActionVars == <<clientVars, guardVars, redactVars, localVars, loggerVars>>
nonLoggerVars == <<clientVars, guardVars, redactVars, localVars, actionVars>>
vars == <<clientVars, guardVars, redactVars, localVars, actionVars, loggerVars>>

(***************************************************************************)
(* Errors.  A thrown value is a record: its class, the HTTP status of a    *)
(* ServiceError, the retryable flag of a NetworkError, and whether the     *)
(* message of a TypeError mentions "fetch" or "network".                   *)
(***************************************************************************)
Err(cls, status, retryable, mentions) ==
    [cls |-> cls, status |-> status, retryable |-> retryable, mentionsFetch |-> mentions]

NetworkErrorClasses == {"NetworkError", "TimeoutError", "CircuitOpenError"}

TimeoutError == Err("TimeoutError", 0, TRUE, FALSE)
CircuitOpenError == Err("CircuitOpenError", 0, FALSE, FALSE)
ValidationError == Err("ValidationError", 0, FALSE, FALSE)
ServiceError(status) == Err("ServiceError", status, FALSE, FALSE)

(***************************************************************************)
(* What one fetch() can do: settle with a 2xx response whose body is a     *)
(* valid blueprint, a JSON value that is not one, or not JSON at all;      *)
(* settle with a 4xx or 5xx response; be aborted by the timeout; or reject *)
(* with an error of the transport.                                         *)
(***************************************************************************)
Outcomes == {"OkValid", "OkMalformed", "OkNotJson", "Http4xx", "Http5xx", "Abort",
             "TypeErrorFetch", "TypeErrorOther", "NetworkErrorRetryable",
             "NetworkErrorTerminal", "OtherError"}

\* fetchWithTimeout: [ok, body] for a parsed 2xx response, [ok = FALSE, err] for a throw
fetchWithTimeout(outcome) ==
    CASE outcome = "OkValid" -> [ok |-> TRUE, body |-> "blueprint", err |-> ValidationError]
      [] outcome = "OkMalformed" -> [ok |-> TRUE, body |-> "malformed", err |-> ValidationError]
      [] outcome = "OkNotJson" -> [ok |-> FALSE, body |-> "none", err |-> Err("SyntaxError", 0, FALSE, FALSE)]
      [] outcome = "Http4xx" -> [ok |-> FALSE, body |-> "none", err |-> ServiceError(400)]
      [] outcome = "Http5xx" -> [ok |-> FALSE, body |-> "none", err |-> ServiceError(500)]
      [] outcome = "Abort" -> [ok |-> FALSE, body |-> "none", err |-> TimeoutError]
      [] outcome = "TypeErrorFetch" -> [ok |-> FALSE, body |-> "none", err |-> Err("TypeError", 0, FALSE, TRUE)]
      [] outcome = "TypeErrorOther" -> [ok |-> FALSE, body |-> "none", err |-> Err("TypeError", 0, FALSE, FALSE)]
      [] outcome = "NetworkErrorRetryable" -> [ok |-> FALSE, body |-> "none", err |-> Err("NetworkError", 0, TRUE, FALSE)]
      [] outcome = "NetworkErrorTerminal" -> [ok |-> FALSE, body |-> "none", err |-> Err("NetworkError", 0, FALSE, FALSE)]
      [] OTHER -> [ok |-> FALSE, body |-> "none", err |-> Err("Error", 0, FALSE, FALSE)]

\* mutant: every ServiceError is retried, 4xx included
isRetryableError_any4xx(e) ==
    IF e.cls = "TimeoutError" THEN TRUE
    ELSE IF e.cls \in NetworkErrorClasses THEN e.retryable
    ELSE IF e.cls = "ServiceError" THEN e.status >= 400
    ELSE IF e.cls = "TypeError" /\ e.mentionsFetch THEN TRUE
    ELSE FALSE

isRetryableError(e) ==
    IF e.cls = "TimeoutError" THEN TRUE
    ELSE IF e.cls \in NetworkErrorClasses THEN e.retryable
    ELSE IF e.cls = "ServiceError" THEN e.status >= 500
    ELSE IF e.cls = "TypeError" /\ e.mentionsFetch THEN TRUE
    ELSE FALSE

\* normalizeError: the class of the error handed to the caller
normalizeError(e) ==
    IF e.cls \in NetworkErrorClasses \cup {"ValidationError", "ServiceError"} THEN e.cls
    ELSE IF e.cls = "AbortError" THEN "TimeoutError"
    ELSE "NetworkError"

(***************************************************************************)
(* The circuit breaker, as functions of the breaker record.                *)
(***************************************************************************)
Breaker == [state |-> circuitState, failures |-> consecutiveFailures, openedAt |-> circuitOpenedAt]

\* mutant: the elapsed-time comparison the wrong way round
checkCircuitBreaker_inverted(b, t) ==
    IF b.state = "open"
    THEN LET timeSinceOpened == t - (IF b.openedAt = Null THEN t ELSE b.openedAt)
         IN  IF timeSinceOpened <= config.circuitBreakerResetTimeout
             THEN [b |-> [b EXCEPT !.state = "half-open"], throws |-> FALSE]
             ELSE [b |-> b, throws |-> TRUE]
    ELSE [b |-> b, throws |-> FALSE]

\* checkCircuitBreaker: the breaker after the check and whether CircuitOpenError is thrown
checkCircuitBreaker(b, t) ==
    IF b.state = "open"
    THEN LET timeSinceOpened == t - (IF b.openedAt = Null THEN t ELSE b.openedAt)
         IN  IF timeSinceOpened >= config.circuitBreakerResetTimeout
             THEN [b |-> [b EXCEPT !.state = "half-open"], throws |-> FALSE]
             ELSE [b |-> b, throws |-> TRUE]
    ELSE [b |-> b, throws |-> FALSE]

\* mutant: the counter is reset but a half-open breaker is not closed
onSuccess_keepsState(b) ==
    [state |-> b.state, failures |-> 0, openedAt |-> b.openedAt]

\* mutant: the breaker is closed whatever its state
onSuccess_closesAlways(b) ==
    [state |-> "closed", failures |-> 0, openedAt |-> b.openedAt]

\* mutant: a half-open breaker is closed but the counter is left as it is
onSuccess_keepsCounter(b) ==
    [state |-> IF b.state = "half-open" THEN "closed" ELSE b.state,
     failures |-> b.failures,
     openedAt |-> b.openedAt]

onSuccess(b) ==
    [state |-> IF b.state = "half-open" THEN "closed" ELSE b.state,
     failures |-> 0,
     openedAt |-> b.openedAt]

\* mutant: > instead of >= in the threshold test
onFailure_strict(b, t) ==
    IF b.failures + 1 > config.circuitBreakerThreshold
    THEN [state |-> "open", failures |-> b.failures + 1, openedAt |-> t]
    ELSE [state |-> b.state, failures |-> b.failures + 1, openedAt |-> b.openedAt]

onFailure(b, t) ==
    IF b.failures + 1 >= config.circuitBreakerThreshold
    THEN [state |-> "open", failures |-> b.failures + 1, openedAt |-> t]
    ELSE [state |-> b.state, failures |-> b.failures + 1, openedAt |-> b.openedAt]

\* mutant: the first attempt is not counted apart from the retries
maxAttempts_noInitial == config.maxRetries

maxAttempts == config.maxRetries + 1

isLastAttempt(attempt) == attempt = maxAttempts

\* mutant: linear instead of exponential backoff
backoffDelay_linear(attempt) == config.retryDelay * attempt

backoffDelay(attempt) == config.retryDelay * Pow2(attempt - 1)

(***************************************************************************)
(* Calls in flight.  A frame is one activation of makeRequest: its loop    *)
(* variable attempt, its lastError, the wake-up time of its sleep, and as  *)
(* history the network attempts it has made (fetches) and how many of them *)
(* ended in a failure of the retried kind (retryFails).                    *)
(***************************************************************************)
NoError == Err("none", 0, FALSE, FALSE)

IdleCall == [pc |-> "idle", op |-> "none", attempt |-> 0, lastError |-> NoError,
             wakeAt |-> 0, fetches |-> 0, retryFails |-> 0]

\* history record of a step: the operation that ran, the breaker state it
\* found, and for a step that ends a call what the caller saw and how many
\* network attempts the call made; for a step in which a fetch settles, what
\* the fetch did (outcome), and for one that throws whether an earlier
\* attempt of the call had failed with an error of another class
Event(kind, slot, valid, result, fetches, retryFails) ==
    [kind |-> kind, slot |-> slot, valid |-> valid, result |-> result,
     fetches |-> fetches, retryFails |-> retryFails, pre |-> circuitState,
     op |-> "none", outcome |-> "none", earlierDiffers |-> FALSE]

\* the history record of a step in which the fetch of frame c settles
Settled(e, c, outcome) ==
    [e EXCEPT !.op = c.op, !.outcome = outcome,
              !.earlierDiffers = /\ e.kind = "throw"
                                 /\ c.lastError.cls \notin {"none", fetchWithTimeout(outcome).err.cls}]

SetBreaker(b) ==
    /\ circuitState' = b.state
    /\ consecutiveFailures' = b.failures
    /\ circuitOpenedAt' = b.openedAt

InFlight == {s \in Slots : calls[s].pc # "idle"}

FreeSlot == CHOOSE s \in Slots : calls[s].pc = "idle" /\ \A r \in Slots : calls[r].pc = "idle" => s <= r

\* mutant: the payload is validated inside the guarded request, so that a
\* validation failure is recorded by onFailure
preflight_countsInvalid(valid, b, t) ==
    IF ~valid
    THEN [error |-> "ValidationError", b |-> onFailure(b, t)]
    ELSE LET chk == checkCircuitBreaker(b, t)
         IN  [error |-> IF chk.throws THEN "CircuitOpenError" ELSE "none", b |-> chk.b]

\* What requestInquiryBlueprint / sendFeedback do before the first network
\* attempt: safeParse of the outgoing payload, then checkCircuitBreaker at the
\* head of makeRequest.  The error thrown ("none": go on) and the breaker left.
preflight(valid, b, t) ==
    IF ~valid
    THEN [error |-> "ValidationError", b |-> b]
    ELSE LET chk == checkCircuitBreaker(b, t)
         IN  [error |-> IF chk.throws THEN "CircuitOpenError" ELSE "none", b |-> chk.b]

\* The synchronous prefix of a call: preflight, then the first iteration of
\* the retry loop up to the await of fetch.
Invoke(op, valid) ==
    /\ Cardinality(InFlight) < callers
    /\ LET s == FreeSlot
           p == preflight(valid, Breaker, now)
       IN  /\ SetBreaker(p.b)
           /\ IF p.error # "none"
              THEN /\ ev' = Event("call", s, valid, p.error, 0, 0)
                   /\ UNCHANGED <<started, calls, probe>>
              ELSE /\ healthy \/ started + maxAttempts <= MaxFetches
                   /\ started' = IF healthy THEN started ELSE started + maxAttempts
                   /\ ev' = Event("call", s, valid, "pending", 0, 0)
                   /\ calls' = [calls EXCEPT ![s] = [IdleCall EXCEPT !.pc = "fetching", !.op = op,
                                                                     !.attempt = 1, !.fetches = 1]]
                   /\ probe' = IF circuitState = "open" /\ p.b.state = "half-open" THEN s ELSE probe
    /\ UNCHANGED <<config, callers, healthy, now, failRun>>

requestInquiryBlueprint(valid) == Invoke("blueprint", valid) /\ UNCHANGED nonClientVars

sendFeedback(valid) == Invoke("feedback", valid) /\ UNCHANGED nonClientVars

\* the failures the retry policy is documented to retry (timeouts, retryable
\* network errors, 5xx responses); used by the history only
RetryableOutcomes == {"Http5xx", "Abort", "TypeErrorFetch", "NetworkErrorRetryable"}

\* InquiryBlueprintSchema.safeParse(response) in requestInquiryBlueprint;
\* sendFeedback drops what makeRequest returns
callerResult(op, body) ==
    IF op = "blueprint" /\ body # "blueprint" THEN "ValidationError" ELSE "ok"

\* mutant: the error of the first failed attempt is kept and surfaced
Throw_firstError(s, e, rf, outcome) ==
    /\ SetBreaker(onFailure(Breaker, now))
    /\ ev' = Settled(Event("throw", s, TRUE,
                            normalizeError(IF calls[s].lastError.cls = "none"
                                           THEN e ELSE calls[s].lastError),
                            calls[s].fetches, rf),
                      calls[s], outcome)
    /\ calls' = [calls EXCEPT ![s] = IdleCall]
    /\ failRun' = failRun + 1
    /\ probe' = IF probe = s THEN 0 ELSE probe

\* the call of slot s ends by throwing e: onFailure, throw normalizeError(e)
Throw(s, e, rf, outcome) ==
    /\ SetBreaker(onFailure(Breaker, now))
    /\ ev' = Settled(Event("throw", s, TRUE, normalizeError(e), calls[s].fetches, rf),
                      calls[s], outcome)
    /\ calls' = [calls EXCEPT ![s] = IdleCall]
    /\ failRun' = failRun + 1
    /\ probe' = IF probe = s THEN 0 ELSE probe

\* mutant: onFailure is called for every failed attempt, retried or not
makeRequest_countsAttempts(s, outcome) ==
    /\ calls[s].pc = "fetching"
    /\ LET c == calls[s]
           r == fetchWithTimeout(outcome)
           rf == c.retryFails + (IF outcome \in RetryableOutcomes THEN 1 ELSE 0)
       IN  IF r.ok
           THEN /\ SetBreaker(onSuccess(Breaker))
                /\ ev' = Settled(Event("return", s, TRUE, callerResult(c.op, r.body),
                                        c.fetches, rf), c, outcome)
                /\ calls' = [calls EXCEPT ![s] = IdleCall]
                /\ failRun' = 0
                /\ probe' = IF probe = s THEN 0 ELSE probe
           ELSE IF ~isRetryableError(r.err) \/ isLastAttempt(c.attempt)
           THEN Throw(s, r.err, rf, outcome)
           ELSE /\ SetBreaker(onFailure(Breaker, now))
                /\ ev' = Settled(Event("retry", s, TRUE, "pending", 0, 0), c, outcome)
                /\ calls' = [calls EXCEPT ![s] = [c EXCEPT !.pc = "sleeping",
                                                          !.lastError = r.err,
                                                          !.retryFails = rf,
                                                          !.wakeAt = now + backoffDelay(c.attempt)]]
                /\ failRun' = failRun + 1
                /\ UNCHANGED probe
    /\ UNCHANGED <<config, callers, healthy, started, now, nonClientVars>>

\* The fetch of slot s settles: the rest of the loop body of makeRequest, and
\* on a return the rest of requestInquiryBlueprint / sendFeedback.
makeRequest(s, outcome) ==
    /\ calls[s].pc = "fetching"
    /\ LET c == calls[s]
           r == fetchWithTimeout(outcome)
           rf == c.retryFails + (IF outcome \in RetryableOutcomes THEN 1 ELSE 0)
       IN  IF r.ok
           THEN /\ SetBreaker(onSuccess(Breaker))
                /\ ev' = Settled(Event("return", s, TRUE, callerResult(c.op, r.body),
                                        c.fetches, rf), c, outcome)
                /\ calls' = [calls EXCEPT ![s] = IdleCall]
                /\ failRun' = 0
                /\ probe' = IF probe = s THEN 0 ELSE probe
           ELSE IF ~isRetryableError(r.err) \/ isLastAttempt(c.attempt)
           THEN Throw(s, r.err, rf, outcome)
           ELSE /\ ev' = Settled(Event("retry", s, TRUE, "pending", 0, 0), c, outcome)
                /\ calls' = [calls EXCEPT ![s] = [c EXCEPT !.pc = "sleeping",
                                                          !.lastError = r.err,
                                                          !.retryFails = rf,
                                                          !.wakeAt = now + backoffDelay(c.attempt)]]
                /\ UNCHANGED <<circuitState, consecutiveFailures, circuitOpenedAt, failRun, probe>>
    /\ UNCHANGED <<config, callers, healthy, started, now, nonClientVars>>

\* The backoff sleep of slot s is over: attempt++, and either the next
\* iteration of the loop up to the await of fetch, or the end of the loop.
sleep(s) ==
    /\ calls[s].pc = "sleeping"
    /\ now >= calls[s].wakeAt
    /\ IF calls[s].attempt + 1 <= maxAttempts
       THEN /\ calls' = [calls EXCEPT ![s] = [@ EXCEPT !.pc = "fetching", !.attempt = @ + 1,
                                                      !.fetches = @ + 1, !.wakeAt = 0]]
            /\ ev' = Event("wake", s, TRUE, "pending", 0, 0)
            /\ UNCHANGED <<circuitState, consecutiveFailures, circuitOpenedAt, failRun, probe>>
       ELSE Throw(s, calls[s].lastError, calls[s].retryFails, "none")
    /\ UNCHANGED <<config, callers, healthy, started, now, nonClientVars>>

resetCircuitBreaker ==
    /\ circuitState # "closed" \/ consecutiveFailures # 0 \/ circuitOpenedAt # Null
    /\ circuitState' = "closed"
    /\ consecutiveFailures' = 0
    /\ circuitOpenedAt' = Null
    /\ ev' = Event("reset", 0, TRUE, "none", 0, 0)
    /\ failRun' = 0
    /\ probe' = 0
    /\ UNCHANGED <<config, callers, healthy, started, now, calls, nonClientVars>>

\* the horizon up to which Tick follows the client
Horizon == IF callers > 1 THEN MaxConcurrentTime ELSE MaxTime

\* wall-clock time passes (a client whose calls overlap is followed for
\* MaxConcurrentTime ticks only)
Tick ==
    /\ now < Horizon
    /\ now' = now + 1
    /\ ev' = Event("tick", 0, TRUE, "none", 0, 0)
    /\ UNCHANGED <<config, callers, healthy, started, circuitState, consecutiveFailures,
                   circuitOpenedAt, calls, failRun, probe, nonClientVars>>

\* something is waiting for the clock: an open breaker whose reset timeout has
\* not elapsed, or a backoff sleep that is not over
Waiting ==
    \/ /\ circuitState = "open"
       /\ circuitOpenedAt # Null
       /\ now - circuitOpenedAt < config.circuitBreakerResetTimeout
    \/ \E s \in Slots : calls[s].pc = "sleeping" /\ now < calls[s].wakeAt

\* the network recovers: from now on every attempt that settles succeeds
networkRecovers ==
    /\ ~healthy
    /\ healthy' = TRUE
    /\ ev' = Event("recover", 0, TRUE, "none", 0, 0)
    /\ UNCHANGED <<config, callers, started, circuitState, consecutiveFailures,
                   circuitOpenedAt, now, calls, failRun, probe, nonClientVars>>

\* wall-clock time passes beyond the horizon, for as long as a recovered
\* client has something waiting for it
Advance ==
    /\ healthy
    /\ now >= Horizon
    /\ Waiting
    /\ now' = now + 1
    /\ ev' = Event("tick", 0, TRUE, "none", 0, 0)
    /\ UNCHANGED <<config, callers, healthy, started, circuitState, consecutiveFailures,
                   circuitOpenedAt, calls, failRun, probe, nonClientVars>>

\* the outcomes of fetch followed in the recovery of the breaker: success
\* with a valid or a malformed body, a 4xx, a 5xx
RecoverOutcomes == {"OkValid", "OkMalformed", "Http4xx", "Http5xx"}

\* the fetch of slot s settles, with success once the network has recovered
settles(s) ==
    \E outcome \in RecoverOutcomes :
        /\ healthy => fetchWithTimeout(outcome).ok
        /\ makeRequest(s, outcome)

\* new HapClient(config): the configurations explored
Configs ==
    [maxRetries : 0..MaxRetries,
     retryDelay : {RetryDelay},
     circuitBreakerThreshold : 1..MaxThreshold,
     circuitBreakerResetTimeout : {ResetTimeout}]

\* the state after new HapClient(cfg)
HapClient(cfg) ==
    /\ config = cfg
    /\ callers = IF cfg.maxRetries <= MaxConcurrentRetries THEN NSlots ELSE 1
    /\ healthy = FALSE
    /\ started = 0
    /\ circuitState = "closed"
    /\ consecutiveFailures = 0
    /\ circuitOpenedAt = Null
    /\ now = 0
    /\ calls = [s \in Slots |-> IdleCall]
    /\ ev = [kind |-> "init", slot |-> 0, valid |-> TRUE, result |-> "none",
             fetches |-> 0, retryFails |-> 0, pre |-> "closed",
             op |-> "none", outcome |-> "none", earlierDiffers |-> FALSE]
    /\ failRun = 0
    /\ probe = 0

(***************************************************************************)
(* Error messages and the redaction of the credential.  Strings are         *)
(* sequences of characters.  A credential is made of the letter "k" and of  *)
(* "+", which new RegExp(apiKey, "g") reads as the one-or-more quantifier;  *)
(* texts coming from the transport or the server may also hold "x".  The    *)
(* fixed texts of the SDK are single characters outside these alphabets.   *)
(***************************************************************************)
KeyChars == {"k", "+"}

TextChars == {"k", "+", "x"}

RECURSIVE Strings(_, _)
Strings(chars, n) ==
    IF n = 0 THEN {<<>>}
    ELSE LET shorter == Strings(chars, n - 1)
         IN  shorter \cup {Append(t, ch) : t \in shorter, ch \in chars}

\* str.includes(key)
Includes(str, key) ==
    \E i \in 1..(Len(str) - Len(key) + 1) : SubSeq(str, i, i + Len(key) - 1) = key

\* new RegExp(pattern): the atoms of the pattern, each a character with or
\* without a "+" after it; a "+" with nothing to repeat is a SyntaxError
RECURSIVE RegExpAtoms(_, _)
RegExpAtoms(pattern, i) ==
    IF i > Len(pattern) THEN [ok |-> TRUE, atoms |-> <<>>]
    ELSE IF pattern[i] = "+" THEN [ok |-> FALSE, atoms |-> <<>>]
    ELSE LET plus == i < Len(pattern) /\ pattern[i + 1] = "+"
             rest == RegExpAtoms(pattern, IF plus THEN i + 2 ELSE i + 1)
         IN  [ok |-> rest.ok, atoms |-> <<[ch |-> pattern[i], plus |-> plus]>> \o rest.atoms]

\* the position after the match of atoms[i..] that starts at str[pos], as the
\* backtracking matcher finds it (a quantified atom takes as many characters
\* as it can, then gives back); 0 when there is none
RECURSIVE MatchAt(_, _, _, _)
RECURSIVE GiveBack(_, _, _, _, _)
MatchAt(atoms, i, str, pos) ==
    IF i > Len(atoms) THEN pos
    ELSE IF pos > Len(str) \/ str[pos] # atoms[i].ch THEN 0
    ELSE IF ~atoms[i].plus THEN MatchAt(atoms, i + 1, str, pos + 1)
    ELSE LET run == CHOOSE n \in 1..(Len(str) - pos + 1) :
                        /\ \A j \in pos..(pos + n - 1) : str[j] = atoms[i].ch
                        /\ (pos + n > Len(str) \/ str[pos + n] # atoms[i].ch)
         IN  GiveBack(atoms, i, str, pos, run)

GiveBack(atoms, i, str, pos, n) ==
    IF n = 0 THEN 0
    ELSE LET end == MatchAt(atoms, i + 1, str, pos + n)
         IN  IF end # 0 THEN end ELSE GiveBack(atoms, i, str, pos, n - 1)

\* str.replace(regexp with flag g, "[REDACTED]"); "R" stands for the marker
RECURSIVE ReplaceAll(_, _, _)
ReplaceAll(atoms, str, pos) ==
    IF pos > Len(str) THEN <<>>
    ELSE LET end == MatchAt(atoms, 1, str, pos)
         IN  IF end # 0 THEN <<"R">> \o ReplaceAll(atoms, str, end)
             ELSE <<str[pos]>> \o ReplaceAll(atoms, str, pos + 1)

\* redactApiKey: the redacted string, or the SyntaxError of new RegExp whose
\* message quotes the pattern ("Invalid regular expression: /.../: ...")
redactApiKey(str) ==
    IF apiKey = <<>> THEN [throws |-> FALSE, str |-> str]
    ELSE LET re == RegExpAtoms(apiKey, 1)
         IN  IF re.ok THEN [throws |-> FALSE, str |-> ReplaceAll(re.atoms, str, 1)]
             ELSE [throws |-> TRUE, str |-> <<"I">> \o apiKey \o <<"N">>]

\* the error makeRequest throws for error e with message msg: the class that
\* normalizeError gives it and its message after redactApiKey
normalizeErrorMessage(e, msg) ==
    LET r == redactApiKey(msg)
    IN  IF e.cls \in NetworkErrorClasses \cup {"ValidationError", "ServiceError", "AbortError", "TypeError"}
        THEN IF r.throws
             THEN [cls |-> "SyntaxError", message |-> r.str]
             ELSE [cls |-> normalizeError(e), message |-> r.str]
        ELSE [cls |-> "NetworkError", message |-> <<"U">>]

NothingThrown == [cls |-> "none", message |-> <<>>]

FailingOutcomes == {o \in Outcomes : ~fetchWithTimeout(o).ok}

\* the message of the error that fetchWithTimeout throws for an outcome, text
\* being what the server or the transport put in it
errorMessage(outcome, text) ==
    CASE outcome \in {"Http4xx", "Http5xx"} -> <<"H">> \o text
      [] outcome = "Abort" -> <<"T">>
      [] OTHER -> text

\* a payload or a response fails safeParse: ValidationError with a fixed message
throwValidationError ==
    /\ thrown' = [cls |-> "ValidationError", message |-> <<"V">>]
    /\ UNCHANGED <<apiKey, nonRedactVars>>

\* checkCircuitBreaker throws new CircuitOpenError()
throwCircuitOpenError ==
    /\ thrown' = [cls |-> "CircuitOpenError", message |-> <<"C">>]
    /\ UNCHANGED <<apiKey, nonRedactVars>>

\* makeRequest gives up on the error of a fetch: throw this.normalizeError(error)
throwNormalized(outcome, text) ==
    /\ thrown' = normalizeErrorMessage(fetchWithTimeout(outcome).err, errorMessage(outcome, text))
    /\ UNCHANGED <<apiKey, nonRedactVars>>

\* the client is constructed with a non-empty apiKey
Redactor(key) ==
    /\ apiKey = key
    /\ thrown = NothingThrown

(* the provider settles a request with a blueprint or rejects, the engine  *)
(* returns a question or throws.  Hooks either return or throw.            *)
(***************************************************************************)
GuardSlots == 1..NGuardSlots

Contexts == {"ctxA", "ctxB"}

BlueprintIds == {"bp1", "bp2"}

IdleFrame == [pc |-> "idle", context |-> "none", stopTrigger |-> FALSE, blueprint |-> "none",
              pcalls |-> 0, providerFailed |-> FALSE, events |-> 0]

\* what the provider does with a request: a blueprint (whose tone the spec
\* factory may refuse) or a rejection
ProviderResults ==
    [rejected : {FALSE}, id : BlueprintIds, badTone : BOOLEAN, error : {"none"}]
        \cup [rejected : {TRUE}, id : {"none"}, badTone : {FALSE},
              error : {"NetworkError", "ValidationError", "ServiceError"}]

\* Values handed to the provider, the hooks and the question engine are
\* argument lists: sequences of the values passed.  The InquiryRequest is
\* structural, here its stopTrigger.
Request(stopTrigger) == <<"request", IF stopTrigger THEN "stop" ELSE "nostop">>

\* mutant: the hooks are handed the context along with the structural data
hookArgs_withContext(event, context, request, blueprint) ==
    CASE event = "onStopDetected" -> Append(request, context)
      [] event = "onBlueprintReceived" -> <<"blueprint", blueprint, context>>
      [] event = "onQuestionGenerated" -> <<blueprint, "spec", blueprint, context>>
      [] OTHER -> <<>>

\* the arguments of the callback that ensureClarified gives invokeMiddleware:
\* onStopDetected(request), onBlueprintReceived(blueprint),
\* onQuestionGenerated(blueprint.id, spec), onClarificationSkipped()
hookArgs(event, context, request, blueprint) ==
    CASE event = "onStopDetected" -> request
      [] event = "onBlueprintReceived" -> <<"blueprint", blueprint>>
      [] event = "onQuestionGenerated" -> <<blueprint, "spec", blueprint>>
      [] OTHER -> <<>>

\* this.provider.requestInquiryBlueprint(request)
providerArgs(context, request) == request

\* this.questionEngine.generateQuestion(context, spec)
engineArgs(context, spec) == <<context>> \o spec

\* mutant: no try/catch around the callback, the first hook that throws ends
\* the loop and its exception leaves invokeMiddleware
invokeMiddleware_noCatch(hooks, event, arg) ==
    LET throwers == {i \in 1..Len(hooks) : hooks[i] = "throws"}
        last == IF throwers = {} THEN Len(hooks)
                ELSE CHOOSE i \in throwers : \A j \in throwers : i <= j
    IN  [log |-> [i \in 1..last |-> [hook |-> i, event |-> event, arg |-> arg,
                                     threw |-> hooks[i] = "throws"]],
         threw |-> throwers # {}]

\* invokeMiddleware: every hook is called in order, a throw is caught and
\* logged; log is what each hook received, threw whether an exception
\* leaves invokeMiddleware
invokeMiddleware(hooks, event, arg) ==
    [log |-> [i \in 1..Len(hooks) |-> [hook |-> i, event |-> event, arg |-> arg,
                                       threw |-> hooks[i] = "throws"]],
     threw |-> FALSE]

\* mutant: the stopTrigger test is dropped
stopNeeded_always(stopTrigger) == TRUE

\* mutant: a stop is not fetched for while another fetch is pending
stopNeeded_coalesced(stopTrigger) ==
    stopTrigger /\ \A g \in GuardSlots : gcalls[g].pc # "awaitProvider"

\* if (!request.stopTrigger)
stopNeeded(stopTrigger) == stopTrigger

\* mutant: a rejected fetch is caught and replaced by a default blueprint
awaitProvider_fallback(r) ==
    [throws |-> FALSE, error |-> "none", blueprint |-> IF r.rejected THEN "bp1" ELSE r.id,
     badTone |-> r.badTone]

\* await this.provider.requestInquiryBlueprint(request)
awaitProvider(r) ==
    IF r.rejected
    THEN [throws |-> TRUE, error |-> r.error, blueprint |-> "none", badTone |-> FALSE]
    ELSE [throws |-> FALSE, error |-> "none", blueprint |-> r.id, badTone |-> r.badTone]

\* QuestionSpecFactory.fromBlueprint: the spec, or ValidationError for a tone
\* or addressing outside the allowed values
fromBlueprint(id, badTone) ==
    IF badTone THEN [throws |-> TRUE, spec |-> <<>>]
    ELSE [throws |-> FALSE, spec |-> <<"spec", id>>]

\* history record of a step of ensureClarified; for a step that ends a call,
\* what the caller saw, what made it throw (cause) and how many events the
\* call delivered to the hooks
GuardEvent(kind, stopTrigger, clarified, question, blueprintId, pcalls, providerFailed) ==
    [kind |-> kind, stopTrigger |-> stopTrigger, clarified |-> clarified,
     question |-> question, blueprintId |-> blueprintId, pcalls |-> pcalls,
     providerFailed |-> providerFailed, cause |-> "none", events |-> 0]

\* the call throws: the exception of the provider, the spec factory, the
\* question engine or a hook leaves ensureClarified
GuardThrow(stopTrigger, pcalls, providerFailed, cause, events) ==
    [GuardEvent("throw", stopTrigger, FALSE, "none", "none", pcalls, providerFailed)
         EXCEPT !.cause = cause, !.events = events]

GuardInFlight == {g \in GuardSlots : gcalls[g].pc # "idle"}

FreeFrame == CHOOSE g \in GuardSlots :
                 gcalls[g].pc = "idle" /\ \A h \in GuardSlots : gcalls[h].pc = "idle" => g <= h

\* ensureClarified up to its first await
ensureClarified(context, stopTrigger) ==
    /\ gstarted < MaxGuardCalls
    /\ GuardInFlight # GuardSlots
    /\ gstarted' = gstarted + 1
    /\ stops' = stops + (IF stopTrigger THEN 1 ELSE 0)
    /\ LET g == FreeFrame
           request == Request(stopTrigger)
           stop == stopNeeded(stopTrigger)
           event == IF stop THEN "onStopDetected" ELSE "onClarificationSkipped"
           im == invokeMiddleware(middleware, event, hookArgs(event, context, request, "none"))
           made == IF stop /\ ~im.threw THEN 1 ELSE 0
       IN  /\ hookLog' = im.log
           /\ providerCalls' = providerCalls + made
           /\ IF im.threw
              THEN /\ gev' = GuardThrow(stopTrigger, made, FALSE, "hook", 1)
                   /\ aborted' = aborted + (IF stopTrigger THEN 1 ELSE 0)
                   /\ UNCHANGED <<gcalls, providerArg>>
              ELSE IF ~stop
              THEN /\ gev' = [GuardEvent("return", stopTrigger, TRUE, "none", "none", made, FALSE)
                                  EXCEPT !.events = 1]
                   /\ UNCHANGED <<gcalls, providerArg, aborted>>
              ELSE /\ gev' = GuardEvent("pending", stopTrigger, FALSE, "none", "none", made, FALSE)
                   /\ providerArg' = providerArgs(context, request)
                   /\ gcalls' = [gcalls EXCEPT ![g] = [IdleFrame EXCEPT !.pc = "awaitProvider",
                                                                       !.context = context,
                                                                       !.stopTrigger = stopTrigger,
                                                                       !.pcalls = made,
                                                                       !.events = 1]]
                   /\ UNCHANGED aborted
    /\ UNCHANGED <<middleware, engineCalls, engineArg, nonGuardVars>>

\* the provider settles the request of frame g: up to the await of the engine
providerSettles(g, r) ==
    /\ gcalls[g].pc = "awaitProvider"
    /\ LET f == gcalls[g]
           a == awaitProvider(r)
           im == invokeMiddleware(middleware, "onBlueprintReceived",
                                  hookArgs("onBlueprintReceived", f.context,
                                           Request(f.stopTrigger), a.blueprint))
           sp == fromBlueprint(a.blueprint, a.badTone)
           cause == IF a.throws THEN "provider"
                    ELSE IF im.threw THEN "hook"
                    ELSE IF sp.throws THEN "factory" ELSE "none"
       IN  /\ hookLog' = IF a.throws THEN hookLog ELSE im.log
           /\ IF cause # "none"
              THEN /\ gev' = GuardThrow(f.stopTrigger, f.pcalls, r.rejected, cause,
                                        f.events + (IF a.throws THEN 0 ELSE 1))
                   /\ gcalls' = [gcalls EXCEPT ![g] = IdleFrame]
                   /\ aborted' = aborted + 1
                   /\ UNCHANGED <<engineCalls, engineArg>>
              ELSE /\ gev' = GuardEvent("pending", f.stopTrigger, FALSE, "none", "none",
                                        f.pcalls, r.rejected)
                   /\ engineCalls' = engineCalls + 1
                   /\ engineArg' = engineArgs(f.context, sp.spec)
                   /\ gcalls' = [gcalls EXCEPT ![g] = [f EXCEPT !.pc = "awaitEngine",
                                                               !.blueprint = a.blueprint,
                                                               !.providerFailed = r.rejected,
                                                               !.events = @ + 1]]
                   /\ UNCHANGED aborted
    /\ UNCHANGED <<middleware, gstarted, stops, providerCalls, providerArg, nonGuardVars>>

\* the question engine settles: the rest of ensureClarified
engineSettles(g, ok) ==
    /\ gcalls[g].pc = "awaitEngine"
    /\ LET f == gcalls[g]
           im == invokeMiddleware(middleware, "onQuestionGenerated",
                                  hookArgs("onQuestionGenerated", f.context,
                                           Request(f.stopTrigger), f.blueprint))
       IN  IF ~ok
           THEN /\ gev' = GuardThrow(f.stopTrigger, f.pcalls, f.providerFailed, "engine", f.events)
                /\ UNCHANGED hookLog
           ELSE /\ hookLog' = im.log
                /\ gev' = IF im.threw
                          THEN GuardThrow(f.stopTrigger, f.pcalls, f.providerFailed, "hook",
                                          f.events + 1)
                          ELSE [GuardEvent("return", f.stopTrigger, FALSE,
                                           <<"question", f.context, f.blueprint>>,
                                           f.blueprint, f.pcalls, f.providerFailed)
                                    EXCEPT !.events = f.events + 1]
    /\ gcalls' = [gcalls EXCEPT ![g] = IdleFrame]
    /\ UNCHANGED <<middleware, gstarted, stops, aborted, providerCalls, providerArg,
                   engineCalls, engineArg, nonGuardVars>>

\* the state after new StopGuard({provider, questionEngine, middleware: hooks})
StopGuard(hooks) ==
    /\ middleware = hooks
    /\ gcalls = [g \in GuardSlots |-> IdleFrame]
    /\ gstarted = 0
    /\ providerCalls = 0
    /\ engineCalls = 0
    /\ hookLog = <<>>
    /\ gev = GuardEvent("init", FALSE, FALSE, "none", "none", 0, FALSE)
    /\ stops = 0
    /\ aborted = 0
    /\ providerArg = <<>>
    /\ engineArg = <<>>

(***************************************************************************)
(* LocalHapProvider.  A blueprint has an id, here a name and the version    *)
(* suffix -v<N> (Null: no such suffix), and the fields the provider filters *)
(* on.  A loaded blueprint is an object: ref is its identity, bp what it    *)
(* holds.  Objects made outside the provider have ref 0.                   *)
(***************************************************************************)
Stages == {"meaning", "purpose"}

Modes == {"convergent", "reflective"}

Patterns == {"p1", "p2"}

\* the blueprints of the sources explored: all of one stage and mode, of
\* either pattern and any version
BlueprintData ==
    [id : [name : {"bp"}, v : {Null} \cup 1..MaxVersion],
     ladderStage : {"meaning"}, agencyMode : {"convergent"}, stopCondition : Patterns]

\* the requests explored: for the stage and mode of the blueprints, with any
\* pattern or none; for another stage or another mode, without a pattern
InquiryRequests ==
    {r \in [ladderStage : Stages, agencyMode : Modes, stopPattern : {"none"} \cup Patterns] :
        \/ r.ladderStage = "meaning" /\ r.agencyMode = "convergent"
        \/ r.stopPattern = "none" /\ (r.ladderStage = "meaning" \/ r.agencyMode = "convergent")}

NoBlueprint ==
    [id |-> [name |-> "none", v |-> Null], ladderStage |-> "none", agencyMode |-> "none",
     stopCondition |-> "none"]

NullObject == [ref |-> Null, bp |-> NoBlueprint]

NoRequest == [ladderStage |-> "none", agencyMode |-> "none", stopPattern |-> "none"]

\* loadBlueprints: one fresh object per blueprint of the source, in its order;
\* the objects of the load-th load are distinct from those of any other load
loadBlueprints(src, load) ==
    [i \in 1..Len(src) |-> [ref |-> (load - 1) * Len(src) + i, bp |-> src[i]]]

\* mutant: every set adds an entry, whether or not the id is already a key
MapSet_append(cache, obj) == Append(cache, obj)

\* Map.prototype.set(blueprint.id, blueprint)
MapSet(cache, obj) ==
    IF \E i \in 1..Len(cache) : cache[i].bp.id = obj.bp.id
    THEN [i \in 1..Len(cache) |-> IF cache[i].bp.id = obj.bp.id THEN obj ELSE cache[i]]
    ELSE Append(cache, obj)

RECURSIVE Populate(_, _, _)
Populate(cache, blueprints, i) ==
    IF i > Len(blueprints) THEN cache
    ELSE Populate(MapSet(cache, blueprints[i]), blueprints, i + 1)

\* mutant: the cache counts as populated only once it holds two blueprints
cachePopulated_two(cache) == Len(cache) > 1

\* ensureBlueprintsLoaded, before its await: this.blueprintCache.size > 0
cachePopulated(cache) == Len(cache) > 0

\* ensureBlueprintsLoaded, after its await: the cache once the loaded
\* blueprints are set into it
ensureBlueprintsLoaded(cache, blueprints) == Populate(cache, blueprints, 1)

extractVersion(id) == IF id.v = Null THEN 0 ELSE id.v

\* mutant: the candidates stay in the cache's order
SortByVersion_unsorted(seq) == seq

\* candidates.sort((a, b) => versionB - versionA): stable, descending
RECURSIVE SortByVersion(_)
SortByVersion(seq) ==
    IF Len(seq) <= 1 THEN seq
    ELSE LET x == seq[Len(seq)]
             sorted == SortByVersion(SubSeq(seq, 1, Len(seq) - 1))
             keep == {i \in 1..Len(sorted) :
                          extractVersion(sorted[i].bp.id) >= extractVersion(x.bp.id)}
             n == Cardinality(keep)
         IN  SubSeq(sorted, 1, n) \o <<x>> \o SubSeq(sorted, n + 1, Len(sorted))

filterCandidates(cache, request) ==
    LET matches(o) ==
            /\ o.bp.ladderStage = request.ladderStage
            /\ o.bp.agencyMode = request.agencyMode
            /\ (request.stopPattern # "none" => o.bp.stopCondition = request.stopPattern)
    IN  SortByVersion(SelectSeq(cache, matches))

\* mutant: the selected blueprint is looked up by its id, not by identity
candidatesInclude_byId(candidates, selected) ==
    \E i \in 1..Len(candidates) : candidates[i].bp.id = selected.bp.id

\* candidates.includes(selected)
candidatesInclude(candidates, selected) ==
    \E i \in 1..Len(candidates) : candidates[i].ref = selected.ref

\* a rate or a mean of the metrics, as the fraction num/den in lowest terms;
\* Undefined is the value of an optional field that is not there
Rational(num, den) == [num |-> num, den |-> den]

Undefined == Rational(0, 0)

EmptyMap == [d \in {} |-> Null]

\* buildMetricsMap: an empty map without a metrics logger, otherwise
\* new Map(this.metricsCache), a map of its own whose values are the very
\* objects the provider stores: each key is mapped to the stored object
buildMetricsMap(logger, cache) ==
    IF ~logger THEN EmptyMap ELSE [d \in DOMAIN cache |-> d]

\* the selectors explored: one that hands back nothing, the i-th candidate,
\* a copy of the i-th candidate ({...candidate}), a blueprint of its own,
\* and a blueprint of its own that it first pushes onto the candidates array
Selectors ==
    [kind : {"null", "other", "pushed"}, index : {1}]
        \cup [kind : {"candidate", "copy"}, index : 1..MaxBlueprints]

\* a selector that hands back the first candidate after writing to the
\* metrics objects it finds in the map it was given
SpoilingSelector == [kind |-> "spoils", index |-> 1]

\* this.config.selector(candidates, request, metricsMap): the value handed
\* back, the candidates array and the stored metrics objects after the call
selector(choice, candidates, metricsMap, stored) ==
    LET i == Min(choice.index, Len(candidates))
        own == [ref |-> 0, bp |-> [NoBlueprint EXCEPT !.id.name = "other"]]
    IN  [selected |-> CASE choice.kind = "null" -> NullObject
                        [] choice.kind \in {"candidate", "spoils"} -> candidates[i]
                        [] choice.kind = "copy" -> [ref |-> 0, bp |-> candidates[i].bp]
                        [] OTHER -> own,
         candidates |-> IF choice.kind = "pushed" THEN Append(candidates, own) ELSE candidates,
         stored |-> IF choice.kind = "spoils"
                    THEN [d \in DOMAIN stored |->
                             IF d \in DOMAIN metricsMap
                             THEN [stored[metricsMap[d]] EXCEPT !.totalUses = 0]
                             ELSE stored[d]]
                    ELSE stored]

LocalSlots == 1..NLocalSlots

IdleLocalCall == [pc |-> "idle", request |-> NoRequest, load |-> 0]

LocalEvent(kind, error, request, candidates, returned, result, load, before) ==
    [kind |-> kind, error |-> error, request |-> request, candidates |-> candidates,
     returned |-> returned, result |-> result, load |-> load, before |-> before]

\* LocalHapProvider.requestInquiryBlueprint(request), up to the await of
\* ensureBlueprintsLoaded: with an empty cache the call starts a load
localRequestInquiryBlueprint(request) ==
    /\ lstarted < MaxLocalCalls
    /\ Cardinality({s \in LocalSlots : lcalls[s].pc # "idle"}) < lcallers
    /\ \E s \in LocalSlots :
        /\ lcalls[s].pc = "idle"
        /\ \A t \in LocalSlots : t < s => lcalls[t].pc # "idle"
        /\ LET load == IF cachePopulated(blueprintCache) THEN 0 ELSE loads + 1
           IN  /\ lcalls' = [lcalls EXCEPT ![s] = [pc |-> "awaiting", request |-> request,
                                                    load |-> load]]
               /\ loads' = IF load = 0 THEN loads ELSE load
               /\ lev' = LocalEvent("call", "none", request, <<>>, NullObject, NullObject,
                                    load, loaded)
    /\ lstarted' = lstarted + 1
    /\ UNCHANGED <<source, selectorFn, metricsLogger, blueprintCache, metricsCache, lcallers,
                   loaded, feedbacks, fhist, fev, nonLocalVars>>

\* LocalHapProvider.requestInquiryBlueprint, from the moment the await of
\* ensureBlueprintsLoaded ends (ok: the load, if there was one, succeeded)
blueprintsLoaded(s, ok) ==
    /\ lcalls[s].pc = "awaiting"
    /\ lcalls[s].load = 0 => ok
    /\ lcalls' = [lcalls EXCEPT ![s] = IdleLocalCall]
    /\ LET request == lcalls[s].request
           load == lcalls[s].load
           cache == IF load = 0 THEN blueprintCache
                    ELSE ensureBlueprintsLoaded(blueprintCache, loadBlueprints(source, load))
           candidates == filterCandidates(cache, request)
           metricsMap == buildMetricsMap(metricsLogger, metricsCache)
           sel == selector(selectorFn, candidates, metricsMap, metricsCache)
       IN  IF ~ok
           THEN /\ lev' = LocalEvent("throw", "LoadFailed", request, <<>>, NullObject,
                                     NullObject, load, loaded)
                /\ UNCHANGED <<blueprintCache, metricsCache, loaded>>
           ELSE /\ blueprintCache' = cache
                /\ loaded' = IF load = 0 THEN loaded ELSE loaded + 1
                /\ IF Len(candidates) = 0
                   THEN /\ lev' = LocalEvent("throw", "NoMatch", request, candidates,
                                             NullObject, NullObject, load, loaded)
                        /\ UNCHANGED metricsCache
                   ELSE /\ metricsCache' = sel.stored
                        /\ lev' = IF sel.selected.ref = Null
                                  THEN LocalEvent("throw", "NullSelected", request, candidates,
                                                  sel.selected, NullObject, load, loaded)
                                  ELSE IF ~candidatesInclude(sel.candidates, sel.selected)
                                  THEN LocalEvent("throw", "NotCandidate", request, candidates,
                                                  sel.selected, NullObject, load, loaded)
                                  ELSE LocalEvent("return", "none", request, candidates,
                                                  sel.selected, sel.selected, load, loaded)
    /\ UNCHANGED <<source, selectorFn, metricsLogger, lcallers, lstarted, loads, feedbacks,
                   fhist, fev, nonLocalVars>>

(***************************************************************************)
(* The metrics of LocalHapProvider.  JavaScript numbers are modelled as    *)
(* exact fractions: the model follows the arithmetic of the source without *)
(* the rounding of floating point.                                         *)
(***************************************************************************)
Abs(k) == IF k < 0 THEN -k ELSE k

RECURSIVE GCD(_, _)
GCD(a, b) == IF b = 0 THEN a ELSE GCD(b, a % b)

Norm(num, den) ==
    LET g == GCD(Abs(num), Abs(den))
    IN  IF g = 0 THEN Rational(0, 1) ELSE Rational(num \div g, den \div g)

RatOfInt(k) == Rational(k, 1)

RatMul(a, b) == Norm(a.num * b.num, a.den * b.den)

RatAdd(a, b) == Norm(a.num * b.den + b.num * a.den, a.den * b.den)

RatDiv(a, b) == Norm(a.num * b.den, a.den * b.num)

\* an optional field of a payload that is not there
Absent == "absent"

FeedbackIds == {"d1", "d2"}

NoTurns == [given |-> FALSE, value |-> 0]

TurnsDeltas == {NoTurns} \cup [given : {TRUE}, value : {-MaxTurns, 1}]

NoPayload ==
    [blueprintId |-> Absent, stopResolved |-> FALSE, turnsDelta |-> NoTurns,
     previousPhase |-> Absent, currentPhase |-> Absent]

\* the FeedbackPayload values explored: any for a blueprint id, and one
\* without the blueprintId field (Absent) or with an empty one
FeedbackPayloads ==
    [blueprintId : FeedbackIds, stopResolved : BOOLEAN, turnsDelta : TurnsDeltas,
     previousPhase : {Absent, "meaning"}, currentPhase : {Absent, "meaning", "purpose"}]
        \cup {[NoPayload EXCEPT !.blueprintId = id] : id \in {Absent, ""}}

\* mutant: only a payload without the field is refused
blueprintIdMissing_absentOnly(payload) == payload.blueprintId = Absent

\* !payload.blueprintId
blueprintIdMissing(payload) == payload.blueprintId \in {Absent, ""}

didPhaseAdvance(previousPhase, currentPhase) ==
    IF previousPhase = Absent \/ currentPhase = Absent
    THEN FALSE
    ELSE previousPhase # currentPhase

NewMetrics ==
    [totalUses |-> 0, resolutionRate |-> RatOfInt(0), averageTurns |-> RatOfInt(0),
     phaseAdvanceRate |-> Undefined]

\* mutant: turnsDelta is added as it is, with its sign
turnsMagnitude_signed(turnsDelta) == turnsDelta

\* Math.abs(payload.turnsDelta)
turnsMagnitude(turnsDelta) == Abs(turnsDelta)

\* mutant: the use is counted twice
countUse_twice(totalUses) == totalUses + 2

\* existing.totalUses + 1
countUse(totalUses) == totalUses + 1

\* updateMetricsFromFeedback: the metrics stored for payload.blueprintId
\* after the call
updatedMetrics(existing, payload) ==
    LET newTotalUses == countUse(existing.totalUses)
        resolvedCount == RatMul(existing.resolutionRate, RatOfInt(existing.totalUses))
        newResolvedCount == IF payload.stopResolved
                            THEN RatAdd(resolvedCount, RatOfInt(1))
                            ELSE resolvedCount
        newResolutionRate == RatDiv(newResolvedCount, RatOfInt(newTotalUses))
        totalTurns == RatMul(existing.averageTurns, resolvedCount)
        newTotalTurns == RatAdd(totalTurns,
                                RatOfInt(turnsMagnitude(payload.turnsDelta.value)))
        newAverageTurns ==
            IF payload.stopResolved /\ payload.turnsDelta.given
            THEN IF newResolvedCount.num > 0
                 THEN RatDiv(newTotalTurns, newResolvedCount)
                 ELSE RatOfInt(0)
            ELSE existing.averageTurns
        rate == IF existing.phaseAdvanceRate = Undefined
                THEN RatOfInt(0)
                ELSE existing.phaseAdvanceRate
        phaseAdvanceCount == RatMul(rate, RatOfInt(existing.totalUses))
        newPhaseAdvanceCount ==
            IF didPhaseAdvance(payload.previousPhase, payload.currentPhase)
            THEN RatAdd(phaseAdvanceCount, RatOfInt(1))
            ELSE phaseAdvanceCount
        newPhaseAdvanceRate ==
            IF payload.previousPhase # Absent /\ payload.currentPhase # Absent
            THEN RatDiv(newPhaseAdvanceCount, RatOfInt(newTotalUses))
            ELSE existing.phaseAdvanceRate
    IN  [totalUses |-> newTotalUses, resolutionRate |-> newResolutionRate,
         averageTurns |-> newAverageTurns, phaseAdvanceRate |-> newPhaseAdvanceRate]

updateMetricsFromFeedback(cache, payload) ==
    LET blueprintId == payload.blueprintId
        existing == IF blueprintId \in DOMAIN cache THEN cache[blueprintId] ELSE NewMetrics
    IN  [d \in DOMAIN cache \cup {blueprintId} |->
            IF d = blueprintId THEN updatedMetrics(existing, payload) ELSE cache[d]]

\* history of the feedback accepted for one blueprint id: its events (n),
\* the resolved ones (r), the resolved ones carrying a turnsDelta (turnN) and
\* the sum of their magnitudes (turnSum), the ones carrying both phases
\* (bothN) and those of them whose phases differ (advN)
NoHistory == [n |-> 0, r |-> 0, turnN |-> 0, turnSum |-> 0, bothN |-> 0, advN |-> 0]

Recorded(h, payload) ==
    LET counted == payload.stopResolved /\ payload.turnsDelta.given
        both == payload.previousPhase # Absent /\ payload.currentPhase # Absent
    IN  [n |-> h.n + 1,
         r |-> h.r + (IF payload.stopResolved THEN 1 ELSE 0),
         turnN |-> h.turnN + (IF counted THEN 1 ELSE 0),
         turnSum |-> h.turnSum + (IF counted THEN Abs(payload.turnsDelta.value) ELSE 0),
         bothN |-> h.bothN + (IF both THEN 1 ELSE 0),
         advN |-> h.advN + (IF both /\ payload.previousPhase # payload.currentPhase
                            THEN 1 ELSE 0)]

FeedbackEvent(kind, payload) == [kind |-> kind, blueprintId |-> payload.blueprintId]

\* LocalHapProvider.sendFeedback(payload)
localSendFeedback(payload) ==
    /\ feedbacks < MaxFeedback
    /\ feedbacks' = feedbacks + 1
    /\ IF blueprintIdMissing(payload)
       THEN /\ fev' = FeedbackEvent("throw", payload)
            /\ UNCHANGED <<metricsCache, fhist>>
       ELSE /\ fev' = FeedbackEvent("return", payload)
            /\ metricsCache' = IF metricsLogger
                               THEN updateMetricsFromFeedback(metricsCache, payload)
                               ELSE metricsCache
            /\ fhist' = [d \in FeedbackIds |->
                            IF d = payload.blueprintId THEN Recorded(fhist[d], payload)
                            ELSE fhist[d]]
    /\ UNCHANGED <<source, selectorFn, metricsLogger, blueprintCache, lcallers, lcalls,
                   lstarted, loads, loaded, lev, nonLocalVars>>

\* the state after new LocalHapProvider({blueprintSource: src, selector: fn,
\* metricsLogger: a logger if `logger`}), used by callers that keep up to n
\* calls in flight
LocalHapProvider(src, fn, logger, n) ==
    /\ lcallers = n
    /\ source = src
    /\ selectorFn = fn
    /\ metricsLogger = logger
    /\ blueprintCache = <<>>
    /\ metricsCache = EmptyMap
    /\ lcalls = [s \in LocalSlots |-> IdleLocalCall]
    /\ lstarted = 0
    /\ loads = 0
    /\ loaded = 0
    /\ feedbacks = 0
    /\ lev = LocalEvent("init", "none", NoRequest, <<>>, NullObject, NullObject, 0, 0)
    /\ fhist = [d \in FeedbackIds |-> NoHistory]
    /\ fev = FeedbackEvent("init", NoPayload)

(***************************************************************************)
(* GuardedAction (src/src/runtime-guards/GuardedAction.ts).  An optional   *)
(* property of an object is a record: whether it is there, and its value.  *)
(* A question is a string as a sequence of characters; a blueprint id and  *)
(* a ladder stage are atoms, "" being the empty string.                    *)
(***************************************************************************)
None(empty) == [defined |-> FALSE, value |-> empty]

Some(v) == [defined |-> TRUE, value |-> v]

\* !x for an optional string x: undefined or the empty string
Falsy(o, empty) == ~o.defined \/ o.value = empty

\* new StoppedActionImpl(question, blueprintId, ladderStage)
StoppedActionImpl(question, blueprintId, ladderStage) ==
    [stopped |-> TRUE, question |-> question, blueprintId |-> blueprintId,
     ladderStage |-> ladderStage, answer |-> None("")]

\* new ResolvedActionImpl(answer)
ResolvedActionImpl(answer) ==
    [stopped |-> FALSE, question |-> <<>>, blueprintId |-> "", ladderStage |-> "",
     answer |-> answer]

\* new UnresolvedStopError(details): what the error carries
UnresolvedStopError(stopCondition, ladderStage) ==
    [stopCondition |-> stopCondition, ladderStage |-> ladderStage]

NoDetails == UnresolvedStopError("none", "none")

\* ResolvedActionImpl.proceed(action): runs the action, hands on what it returns
ResolvedActionImpl_proceed(o) ==
    [threw |-> "none", details |-> NoDetails, runs |-> TRUE]

\* mutant: the stopped object runs the action as a resolved one does
StoppedActionImpl_proceed_runs(o) == ResolvedActionImpl_proceed(o)

\* StoppedActionImpl.proceed(): throws, whatever it is handed
StoppedActionImpl_proceed(o) ==
    [threw |-> "UnresolvedStopError",
     details |-> UnresolvedStopError("both", o.ladderStage), runs |-> FALSE]

\* the shape fromClarificationResult accepts
ClarificationResults ==
    [clarified : BOOLEAN,
     question : {None(<<>>), Some(<<>>), Some(<<"q">>)},
     blueprintId : {None(""), Some(""), Some("bp1")},
     ladderStage : {None(""), Some("meaning"), Some("purpose")}]

NoResult == [clarified |-> TRUE, question |-> None(<<>>), blueprintId |-> None(""),
             ladderStage |-> None("")]

\* mutant: the stage of an unclarified result is not asked for
incomplete_noStage(result) ==
    Falsy(result.question, <<>>) \/ Falsy(result.blueprintId, "")

\* !result.question || !result.blueprintId || !result.ladderStage
incomplete(result) ==
    \/ Falsy(result.question, <<>>)
    \/ Falsy(result.blueprintId, "")
    \/ Falsy(result.ladderStage, "")

\* history record of an operation: the object it was called on (0: a static
\* method), what it was given, what it threw, the object it returned (0:
\* none) and whether it ran the action handed to proceed
ActionEvent(op, on, input, threw, details, result, ran) ==
    [op |-> op, on |-> on, input |-> input, threw |-> threw, details |-> details,
     result |-> result, ran |-> ran]

\* GuardedAction.create(params)
create(question, blueprintId, ladderStage) ==
    /\ Len(objects) < MaxObjects
    /\ objects' = Append(objects, StoppedActionImpl(question, blueprintId, ladderStage))
    /\ aev' = ActionEvent("create", 0, NoResult, "none", NoDetails, Len(objects) + 1, FALSE)
    /\ UNCHANGED <<executed, nonActionVars>>

\* GuardedAction.createResolved()
createResolved ==
    /\ Len(objects) < MaxObjects
    /\ objects' = Append(objects, ResolvedActionImpl(None("")))
    /\ aev' = ActionEvent("createResolved", 0, NoResult, "none", NoDetails,
                          Len(objects) + 1, FALSE)
    /\ UNCHANGED <<executed, nonActionVars>>

\* GuardedAction.fromClarificationResult(result)
fromClarificationResult(result) ==
    /\ Len(objects) < MaxObjects
    /\ IF result.clarified
       THEN /\ objects' = Append(objects, ResolvedActionImpl(None("")))
            /\ aev' = ActionEvent("fromClarificationResult", 0, result, "none", NoDetails,
                                  Len(objects) + 1, FALSE)
       ELSE IF incomplete(result)
       THEN /\ aev' = ActionEvent("fromClarificationResult", 0, result, "Error", NoDetails,
                                  0, FALSE)
            /\ UNCHANGED objects
       ELSE /\ objects' = Append(objects, StoppedActionImpl(result.question.value,
                                                            result.blueprintId.value,
                                                            result.ladderStage.value))
            /\ aev' = ActionEvent("fromClarificationResult", 0, result, "none", NoDetails,
                                  Len(objects) + 1, FALSE)
    /\ UNCHANGED <<executed, nonActionVars>>

\* StoppedActionImpl.resolve(answer) on object i: a new resolved object; the
\* stopped object stays as it is
resolve(i, answer) ==
    /\ i \in 1..Len(objects)
    /\ objects[i].stopped
    /\ Len(objects) < MaxObjects
    /\ objects' = Append(objects, ResolvedActionImpl(answer))
    /\ aev' = ActionEvent("resolve", i, NoResult, "none", NoDetails, Len(objects) + 1, FALSE)
    /\ UNCHANGED <<executed, nonActionVars>>

\* proceed(action) called on object i, of either variant (on a stopped object
\* the call gets past the compiler through a cast)
proceed(i) ==
    /\ i \in 1..Len(objects)
    /\ LET o == objects[i]
           r == IF o.stopped THEN StoppedActionImpl_proceed(o) ELSE ResolvedActionImpl_proceed(o)
       IN  /\ r.runs => executed < MaxProceeds
           /\ executed' = executed + (IF r.runs THEN 1 ELSE 0)
           /\ aev' = ActionEvent("proceed", i, NoResult, r.threw, r.details, 0, r.runs)
    /\ UNCHANGED <<objects, nonActionVars>>

\* no guarded action has been built yet
GuardedAction ==
    /\ objects = <<>>
    /\ executed = 0
    /\ aev = ActionEvent("init", 0, NoResult, "none", NoDetails, 0, FALSE)

\* the value ensureClarified returned, as its last completed call e shows it:
\* {clarified: true}, or {clarified: false, question, blueprintId}
ClarificationResult(e) ==
    IF e.clarified
    THEN [clarified |-> TRUE, question |-> None(<<>>), blueprintId |-> None(""),
          ladderStage |-> None("")]
    ELSE [clarified |-> FALSE, question |-> Some(e.question),
          blueprintId |-> Some(e.blueprintId), ladderStage |-> None("")]

(***************************************************************************)
(* QuestionOutcomeLogger (src/src/metrics/QuestionOutcomeLogger.ts).  An   *)
(* outcome is a structural record, here one of a few distinct values.      *)
(***************************************************************************)
QuestionOutcomes == {"o1", "o2"}

\* mutant: once the buffer is over its size the outcome just pushed is dropped
pushAndTrim_dropsNewest(buf, size, outcome) ==
    IF Len(buf) + 1 > size THEN buf ELSE Append(buf, outcome)

\* this.buffer.push(outcome); if (this.buffer.length > this.maxBufferSize)
\* this.buffer.shift()
pushAndTrim(buf, size, outcome) ==
    LET pushed == Append(buf, outcome)
    IN  IF Len(pushed) > size THEN Tail(pushed) ELSE pushed

\* QuestionOutcomeLogger.log(outcome)
log(outcome) ==
    /\ Len(logged) < MaxLogged
    /\ buffer' = pushAndTrim(buffer, maxBufferSize, outcome)
    /\ logged' = Append(logged, outcome)
    /\ UNCHANGED <<maxBufferSize, nonLoggerVars>>

\* QuestionOutcomeLogger.clear(); the history starts again
clear ==
    /\ buffer # <<>>
    /\ buffer' = <<>>
    /\ logged' = <<>>
    /\ UNCHANGED <<maxBufferSize, nonLoggerVars>>

\* the state after new QuestionOutcomeLogger(size)
QuestionOutcomeLogger(size) ==
    /\ maxBufferSize = size
    /\ buffer = <<>>
    /\ logged = <<>>

DefaultSelector == [kind |-> "candidate", index |-> 1]

DefaultConfig == [maxRetries |-> MaxRetries, retryDelay |-> RetryDelay,
                  circuitBreakerThreshold |-> MaxThreshold,
                  circuitBreakerResetTimeout |-> ResetTimeout]

\* a guard with any middleware list, over a client left at its defaults
InitGuard ==
    /\ \E hooks \in UNION {[1..n -> {"ok", "throws"}] : n \in 0..NHooks} : StopGuard(hooks)
    /\ GuardedAction
    /\ QuestionOutcomeLogger(1)
    /\ HapClient(DefaultConfig)
    /\ Redactor(<<"k">>)
    /\ LocalHapProvider(<<>>, DefaultSelector, FALSE, 1)

NextGuard ==
    \/ \E context \in Contexts, stopTrigger \in BOOLEAN : ensureClarified(context, stopTrigger)
    \/ \E g \in GuardSlots, r \in ProviderResults : providerSettles(g, r)
    \/ \E g \in GuardSlots, ok \in BOOLEAN : engineSettles(g, ok)

SpecGuard == InitGuard /\ [][NextGuard]_vars

\* a client with any configuration, beside a guard without middleware
InitClient ==
    /\ \E cfg \in Configs : HapClient(cfg)
    /\ StopGuard(<<>>)
    /\ GuardedAction
    /\ QuestionOutcomeLogger(1)
    /\ Redactor(<<"k">>)
    /\ LocalHapProvider(<<>>, DefaultSelector, FALSE, 1)

NextClient ==
    \/ \E valid \in BOOLEAN : requestInquiryBlueprint(valid)
    \/ \E valid \in BOOLEAN : sendFeedback(valid)
    \/ \E s \in Slots, outcome \in Outcomes : makeRequest(s, outcome)
    \/ \E s \in Slots : sleep(s)
    \/ resetCircuitBreaker
    \/ Tick

SpecClient == InitClient /\ [][NextClient]_vars

\* a client that retries once, with any threshold, whose network recovers at
\* some point and stays recovered
InitRecover ==
    /\ \E cfg \in {c \in Configs : c.maxRetries = 1} : HapClient(cfg)
    /\ StopGuard(<<>>)
    /\ GuardedAction
    /\ QuestionOutcomeLogger(1)
    /\ Redactor(<<"k">>)
    /\ LocalHapProvider(<<>>, DefaultSelector, FALSE, 1)

\* a call whose outgoing payload is valid: it reaches checkCircuitBreaker
validCall == requestInquiryBlueprint(TRUE) \/ sendFeedback(TRUE)

NextRecover ==
    \/ validCall
    \/ requestInquiryBlueprint(FALSE)
    \/ \E s \in Slots : settles(s)
    \/ \E s \in Slots : sleep(s)
    \/ resetCircuitBreaker
    \/ networkRecovers
    \/ Tick
    \/ Advance

\* the event loop runs what is ready: a fetch in flight settles, a sleep whose
\* time has come ends, and the clock moves on
SpecRecover ==
    /\ InitRecover
    /\ [][NextRecover]_vars
    /\ WF_vars(Tick \/ Advance)
    /\ \A s \in Slots : WF_vars(settles(s)) /\ WF_vars(sleep(s))

\* a client with any credential, and the errors its calls can throw
InitRedact ==
    /\ \E key \in Strings(KeyChars, MaxKeyLen) \ {<<>>} : Redactor(key)
    /\ HapClient(DefaultConfig)
    /\ StopGuard(<<>>)
    /\ GuardedAction
    /\ QuestionOutcomeLogger(1)
    /\ LocalHapProvider(<<>>, DefaultSelector, FALSE, 1)

NextRedact ==
    \/ throwValidationError
    \/ throwCircuitOpenError
    \/ \E outcome \in FailingOutcomes, text \in Strings(TextChars, MaxTextLen) :
           throwNormalized(outcome, text)

SpecRedact == InitRedact /\ [][NextRedact]_vars

\* a local provider over any source of up to MaxBlueprints blueprints, with
\* any of the selectors, called again only when the last call has ended
InitLocal ==
    /\ \E src \in UNION {[1..n -> BlueprintData] : n \in 0..MaxBlueprints}, fn \in Selectors :
           LocalHapProvider(src, fn, FALSE, 1)
    /\ HapClient(DefaultConfig)
    /\ StopGuard(<<>>)
    /\ GuardedAction
    /\ QuestionOutcomeLogger(1)
    /\ Redactor(<<"k">>)

NextLocal ==
    \/ \E request \in InquiryRequests : localRequestInquiryBlueprint(request)
    \/ \E s \in LocalSlots, ok \in BOOLEAN : blueprintsLoaded(s, ok)

SpecLocal == InitLocal /\ [][NextLocal]_vars

\* a local provider over sources of blueprints of one pattern, with a selector
\* that picks the first candidate, whose calls overlap
InitLoad ==
    /\ \E src \in UNION {[1..n -> {b \in BlueprintData : b.stopCondition = "p1"}] :
                              n \in 0..MaxBlueprints} :
           LocalHapProvider(src, DefaultSelector, FALSE, NLocalSlots)
    /\ HapClient(DefaultConfig)
    /\ StopGuard(<<>>)
    /\ GuardedAction
    /\ QuestionOutcomeLogger(1)
    /\ Redactor(<<"k">>)

NextLoad ==
    \/ \E request \in InquiryRequests : localRequestInquiryBlueprint(request)
    \/ \E s \in LocalSlots, ok \in BOOLEAN : blueprintsLoaded(s, ok)

SpecLoad == InitLoad /\ [][NextLoad]_vars

\* a local provider, with or without a metrics logger, receiving feedback
InitMetrics ==
    /\ \E logger \in BOOLEAN : LocalHapProvider(<<>>, DefaultSelector, logger, 1)
    /\ HapClient(DefaultConfig)
    /\ StopGuard(<<>>)
    /\ GuardedAction
    /\ QuestionOutcomeLogger(1)
    /\ Redactor(<<"k">>)

NextMetrics ==
    \E payload \in FeedbackPayloads : localSendFeedback(payload)

SpecMetrics == InitMetrics /\ [][NextMetrics]_vars

SnapshotSource ==
    <<[id |-> [name |-> "bp", v |-> 1], ladderStage |-> "meaning",
       agencyMode |-> "convergent", stopCondition |-> "p1"]>>

\* a local provider over one blueprint, with a metrics logger and a selector
\* that reads or writes the metrics, receiving feedback and serving requests
InitSnapshot ==
    /\ \E fn \in {DefaultSelector, SpoilingSelector} :
           LocalHapProvider(SnapshotSource, fn, TRUE, 1)
    /\ HapClient(DefaultConfig)
    /\ StopGuard(<<>>)
    /\ GuardedAction
    /\ QuestionOutcomeLogger(1)
    /\ Redactor(<<"k">>)

SnapshotPayloads ==
    {p \in FeedbackPayloads : p.turnsDelta = NoTurns /\ p.previousPhase = Absent
                                 /\ p.currentPhase = Absent}

SnapshotRequests ==
    {r \in InquiryRequests : r.agencyMode = "convergent" /\ r.stopPattern = "none"}

NextSnapshot ==
    \/ \E payload \in SnapshotPayloads : localSendFeedback(payload)
    \/ \E request \in SnapshotRequests : localRequestInquiryBlueprint(request)
    \/ \E s \in LocalSlots, ok \in BOOLEAN : blueprintsLoaded(s, ok)

SpecSnapshot == InitSnapshot /\ [][NextSnapshot]_vars

\* InquiryRequestSchema.safeParse(request).success, over the fields the model
\* of a request keeps (every request explored carries a boolean stopTrigger)
InquiryRequestSchema(request) ==
    /\ request.ladderStage \in {"meaning", "purpose", "intention", "action"}
    /\ request.agencyMode \in {"convergent", "reflective"}

\* a request that fails the shape check: its ladderStage is not a stage
MalformedRequests ==
    {[ladderStage |-> "bogus", agencyMode |-> "convergent", stopPattern |-> "none"]}

\* a local provider over any source of blueprints of one pattern, with a
\* selector that picks the first candidate, given well-formed and malformed
\* requests alike
InitSwap ==
    /\ \E src \in UNION {[1..n -> {b \in BlueprintData : b.stopCondition = "p1"}] :
                              n \in 0..MaxBlueprints} :
           LocalHapProvider(src, DefaultSelector, FALSE, 1)
    /\ HapClient(DefaultConfig)
    /\ StopGuard(<<>>)
    /\ GuardedAction
    /\ QuestionOutcomeLogger(1)
    /\ Redactor(<<"k">>)

NextSwap ==
    \/ \E request \in InquiryRequests \cup MalformedRequests :
           localRequestInquiryBlueprint(request)
    \/ \E s \in LocalSlots, ok \in BOOLEAN : blueprintsLoaded(s, ok)

SpecSwap == InitSwap /\ [][NextSwap]_vars

\* guarded actions built by any of the constructors, resolved and proceeded
InitAction ==
    /\ GuardedAction
    /\ HapClient(DefaultConfig)
    /\ StopGuard(<<>>)
    /\ Redactor(<<"k">>)
    /\ LocalHapProvider(<<>>, DefaultSelector, FALSE, 1)
    /\ QuestionOutcomeLogger(1)

NextAction ==
    \/ \E blueprintId \in BlueprintIds, ladderStage \in Stages :
           create(<<"q">>, blueprintId, ladderStage)
    \/ createResolved
    \/ \E result \in ClarificationResults : fromClarificationResult(result)
    \/ \E i \in 1..MaxObjects, answer \in {None(""), Some("a")} : resolve(i, answer)
    \/ \E i \in 1..MaxObjects : proceed(i)

SpecAction == InitAction /\ [][NextAction]_vars

\* a guard without middleware whose results are handed to
\* GuardedAction.fromClarificationResult
InitBridge ==
    /\ StopGuard(<<>>)
    /\ GuardedAction
    /\ HapClient(DefaultConfig)
    /\ Redactor(<<"k">>)
    /\ LocalHapProvider(<<>>, DefaultSelector, FALSE, 1)
    /\ QuestionOutcomeLogger(1)

NextBridge ==
    \/ \E context \in Contexts, stopTrigger \in BOOLEAN : ensureClarified(context, stopTrigger)
    \/ \E g \in GuardSlots, r \in ProviderResults : providerSettles(g, r)
    \/ \E g \in GuardSlots, ok \in BOOLEAN : engineSettles(g, ok)
    \/ gev.kind = "return" /\ fromClarificationResult(ClarificationResult(gev))

SpecBridge == InitBridge /\ [][NextBridge]_vars

\* a logger of any capacity up to MaxCapacity
InitLogger ==
    /\ \E size \in 0..MaxCapacity : QuestionOutcomeLogger(size)
    /\ HapClient(DefaultConfig)
    /\ StopGuard(<<>>)
    /\ Redactor(<<"k">>)
    /\ LocalHapProvider(<<>>, DefaultSelector, FALSE, 1)
    /\ GuardedAction

NextLogger ==
    \/ \E outcome \in QuestionOutcomes : log(outcome)
    \/ clear

SpecLogger == InitLogger /\ [][NextLogger]_vars

(***************************************************************************)
(* Properties of StopGuard.ensureClarified (SpecGuard).                    *)
(***************************************************************************)
GuardDone == gev.kind \in {"return", "throw"}

\* C1: an ensureClarified call with stopTrigger = false returns {clarified: true}
\* (no question, no blueprint id) and makes no provider call: it never waits
\* for the provider, whatever the provider, the hooks and the context are.
C1_NoStopNoProviderCall ==
    /\ \A g \in GuardSlots : gcalls[g].pc # "idle" => gcalls[g].stopTrigger
    /\ (GuardDone /\ ~gev.stopTrigger) =>
           /\ gev.kind = "return"
           /\ gev.clarified
           /\ gev.question = "none"
           /\ gev.blueprintId = "none"
           /\ gev.pcalls = 0

C1_Witness == gev.kind = "return" /\ ~gev.stopTrigger /\ gev.clarified /\ providerCalls > 0

\* C2: an ensureClarified call with stopTrigger = true whose provider request
\* is rejected ends by throwing; it never returns, and so never reports
\* clarified = true.
C2_FetchFailurePropagates ==
    (GuardDone /\ gev.stopTrigger /\ gev.providerFailed) =>
        (gev.kind = "throw" /\ ~gev.clarified)

C2_Witness == gev.kind = "throw" /\ gev.stopTrigger /\ gev.providerFailed /\ gev.pcalls = 1

\* an argument list that holds a localContext value
HoldsContext(args) == \E i \in 1..Len(args) : args[i] \in Contexts

\* C17: the context given to ensureClarified is handed to the question
\* engine only: it is in no argument of a call to the provider and in no
\* argument of a call to a hook.
C17_ContextStaysLocal ==
    /\ ~HoldsContext(providerArg)
    /\ \A i \in 1..Len(hookLog) : ~HoldsContext(hookLog[i].arg)

\* the engine has been called with a context, after the provider and the
\* hooks were called, and the hooks have seen the generated question's event
C17_Witness ==
    /\ HoldsContext(engineArg)
    /\ providerArg = Request(TRUE)
    /\ Len(hookLog) > 0 /\ hookLog[1].event = "onQuestionGenerated"

\* C18: every ensureClarified invocation with stopTrigger = true makes its own
\* provider call and, once its blueprint is there and converted, its own call
\* of the question engine, whatever other invocations are in flight: the
\* provider has been called once per such invocation, and the engine once per
\* such invocation that is past the provider and did not end before.
C18_NoCoalescing ==
    /\ providerCalls = stops
    /\ engineCalls = stops - aborted - Cardinality({g \in GuardSlots : gcalls[g].pc = "awaitProvider"})
    /\ \A g \in GuardSlots : gcalls[g].pc # "idle" => gcalls[g].pcalls = 1

\* two invocations with the same request in flight at once, each with its
\* own provider call made and its own engine call pending
C18_Witness ==
    /\ \A g \in GuardSlots : gcalls[g].pc = "awaitEngine"
    /\ NGuardSlots >= 2
    /\ stops = NGuardSlots /\ providerCalls = NGuardSlots /\ engineCalls = NGuardSlots

\* C19: a hook that throws does not abort ensureClarified: at every event all
\* the hooks are called, no call ends with a hook's exception, a call that
\* returns has delivered all its events (three with a stop, one without), and
\* its result is the one fixed by the request, the context and the blueprint.
C19_HookThrowContained ==
    /\ gstarted > 0 =>
           /\ Len(hookLog) = Len(middleware)
           /\ \A i \in 1..Len(hookLog) : hookLog[i].hook = i
    /\ gev.cause # "hook"
    /\ gev.kind = "return" =>
           IF gev.stopTrigger
           THEN /\ gev.events = 3
                /\ ~gev.clarified
                /\ gev.blueprintId \in BlueprintIds
                /\ \E context \in Contexts :
                       gev.question = <<"question", context, gev.blueprintId>>
           ELSE /\ gev.events = 1
                /\ gev.clarified
                /\ gev.question = "none"

\* the first of two hooks throws at every event; the call still returns its
\* question and the second hook has received onQuestionGenerated
C19_Witness ==
    /\ Len(middleware) = 2 /\ middleware[1] = "throws"
    /\ gev.kind = "return" /\ gev.stopTrigger /\ gev.events = 3
    /\ Len(hookLog) = 2 /\ hookLog[1].threw
    /\ hookLog[2].event = "onQuestionGenerated"

(***************************************************************************)
(* Properties of HapClient (SpecClient).                                   *)
(***************************************************************************)
breakerVars == <<circuitState, consecutiveFailures, circuitOpenedAt>>

\* the breaker is open and the reset timeout has not elapsed since it opened
OpenAndWaiting ==
    /\ circuitState = "open"
    /\ circuitOpenedAt # Null
    /\ now - circuitOpenedAt < config.circuitBreakerResetTimeout

\* the step starts a call and rejects it before any network attempt
FailsFast(error) ==
    /\ ev'.result = error
    /\ calls' = calls
    /\ started' = started
    /\ breakerVars' = breakerVars

\* C3 (as amended): while the breaker is open and the reset timeout has not
\* elapsed, every call whose outgoing payload passes schema validation fails
\* with CircuitOpenError, with no network attempt and no backoff wait; the
\* breaker is left as it was.
C3_OpenFailsFast ==
    [][(ev'.kind = "call" /\ ev'.valid /\ OpenAndWaiting) => FailsFast("CircuitOpenError")]_vars

C3_Witness ==
    /\ ev.kind = "call" /\ ev.valid /\ ev.result = "CircuitOpenError"
    /\ ev.pre = "open" /\ circuitState = "open"

\* C3 (as stated): while the breaker is open and the reset timeout has not
\* elapsed, every call fails with CircuitOpenError without a network attempt.
C3_Original ==
    [][(ev'.kind = "call" /\ OpenAndWaiting) => FailsFast("CircuitOpenError")]_vars

\* C4 (as stated): while the breaker is half-open and the outcome of the probe
\* (the call that moved it from open to half-open) has not been recorded, no
\* other call performs network I/O: a call started then is not admitted.
C4_SingleProbe ==
    [][(ev'.kind = "call" /\ ev'.valid /\ circuitState = "half-open" /\ probe # 0)
           => ev'.result # "pending"]_vars

\* C5: when a call admitted to the network ends in failure and is the N-th
\* such failure in a row, N >= circuitBreakerThreshold, with no successful
\* network exchange (and no reset) in between, the breaker is open and
\* circuitOpenedAt holds the time of that failure.
C5_ThresholdOpens ==
    (ev.kind = "throw" /\ failRun >= config.circuitBreakerThreshold) =>
        (circuitState = "open" /\ circuitOpenedAt = now)

C5_Witness ==
    /\ ev.kind = "throw" /\ ev.pre = "closed" /\ circuitState = "open"
    /\ config.circuitBreakerThreshold >= 2
    /\ failRun >= config.circuitBreakerThreshold

\* C6 (as stated): a call that fails while the breaker is half-open leaves the
\* breaker open, with circuitOpenedAt set to the time of that failure.
C6_HalfOpenFailureReopens ==
    [][(ev'.kind = "throw" /\ circuitState = "half-open")
           => (circuitState' = "open" /\ circuitOpenedAt' = now)]_vars

\* C7: a call that succeeds while the breaker is half-open leaves the breaker
\* closed and consecutiveFailures = 0.
C7_HalfOpenSuccessCloses ==
    [][(ev'.kind = "return" /\ ev'.result = "ok" /\ circuitState = "half-open")
           => (circuitState' = "closed" /\ consecutiveFailures' = 0)]_vars

C7_Witness ==
    /\ ev.kind = "return" /\ ev.result = "ok" /\ ev.pre = "half-open"
    /\ circuitState = "closed"

\* C8: apart from resetCircuitBreaker, the breaker state changes only by
\* closed -> open (a call fails and consecutiveFailures reaches the threshold),
\* open -> half-open (a call arrives once the reset timeout has elapsed),
\* half-open -> closed (the network exchange of a call succeeds) and
\* half-open -> open (a call fails); the passing of time alone changes nothing.
C8_BreakerEdges ==
    [][circuitState' # circuitState =>
           \/ ev'.kind = "reset"
           \/ /\ circuitState = "closed" /\ circuitState' = "open"
              /\ ev'.kind = "throw"
              /\ consecutiveFailures' >= config.circuitBreakerThreshold
           \/ /\ circuitState = "open" /\ circuitState' = "half-open"
              /\ ev'.kind = "call"
              /\ circuitOpenedAt # Null
              /\ now - circuitOpenedAt >= config.circuitBreakerResetTimeout
           \/ /\ circuitState = "half-open" /\ circuitState' = "closed"
              /\ ev'.kind = "return"
           \/ /\ circuitState = "half-open" /\ circuitState' = "open"
              /\ ev'.kind = "throw"]_vars

C8_Witness ==
    /\ ev.kind = "throw" /\ ev.pre = "half-open" /\ circuitState = "open"
    /\ Cardinality(InFlight) > 0

\* C9: a call (directive request or feedback record) whose outgoing payload
\* fails schema validation ends with ValidationError before any network
\* attempt, and leaves the breaker state, the failure counter and the open
\* timestamp unchanged.
C9_InvalidRequestNotCounted ==
    [][(ev'.kind = "call" /\ ~ev'.valid) => FailsFast("ValidationError")]_vars

C9_Witness ==
    /\ ev.kind = "call" /\ ~ev.valid /\ ev.result = "ValidationError"
    /\ circuitState = "open" /\ consecutiveFailures > 0

\* C10: a call admitted to the network never makes more than maxRetries + 1
\* network attempts, every attempt before its current one ended in a failure
\* of the retried kind (it stops at the first success), and when it ends
\* after k such failures it has made exactly min(k + 1, maxRetries + 1)
\* attempts.
C10_AttemptCount ==
    /\ \A s \in Slots :
           /\ calls[s].fetches <= config.maxRetries + 1
           /\ calls[s].pc = "fetching" => calls[s].fetches = calls[s].retryFails + 1
           /\ calls[s].pc = "sleeping" => calls[s].fetches = calls[s].retryFails
    /\ ev.kind \in {"return", "throw"} =>
           ev.fetches = Min(ev.retryFails + 1, config.maxRetries + 1)

\* maxRetries = 3 and every attempt failing: exactly 4 attempts
C10_Witness ==
    /\ ev.kind = "throw" /\ config.maxRetries = 3
    /\ ev.retryFails = 4 /\ ev.fetches = 4

\* C11: an attempt is followed by a backoff wait and a further attempt only
\* when it ended in a timeout, a retryable network error or a 5xx response;
\* a call whose attempt ends in a 4xx response ends there with ServiceError,
\* and when that attempt was its first the call has made exactly one network
\* attempt.
C11_OnlyRetryableRetried ==
    [][/\ ev'.kind = "retry" => ev'.outcome \in RetryableOutcomes
       /\ ev'.outcome = "Http4xx" =>
              /\ ev'.kind = "throw"
              /\ ev'.result = "ServiceError"
              /\ calls'[ev'.slot].pc = "idle"
              /\ ev'.fetches = calls[ev'.slot].attempt]_vars

\* a first attempt answered 4xx with retries configured: one attempt made
C11_Witness ==
    /\ ev.kind = "throw" /\ ev.outcome = "Http4xx" /\ ev.fetches = 1
    /\ config.maxRetries >= 1

\* C12: after failed attempt k of a call (k = 1..maxRetries) the next attempt
\* is not made before retryDelay * 2^(k-1) has passed since the failure:
\* retryDelay, 2 * retryDelay, 4 * retryDelay for maxRetries = 3.
BackoffFactor == <<1, 2, 4, 8, 16>>

C12_ExponentialBackoff ==
    [][/\ ev'.kind = "retry" =>
              LET k == calls[ev'.slot].attempt
              IN  /\ k \in 1..config.maxRetries
                  /\ calls'[ev'.slot].wakeAt = now + config.retryDelay * BackoffFactor[k]
       /\ ev'.kind = "wake" =>
              /\ now >= calls[ev'.slot].wakeAt
              /\ calls'[ev'.slot].attempt = calls[ev'.slot].attempt + 1]_vars

\* the third backoff of a call with maxRetries = 3 is over: its fourth attempt
\* starts 1 + 2 + 4 delays after the first failure at time 0
C12_Witness ==
    /\ ev.kind = "wake" /\ config.maxRetries = 3
    /\ calls[ev.slot].attempt = 4
    /\ now = 7 * config.retryDelay

Answers2xx == {"OkValid", "OkMalformed", "OkNotJson"}

\* C15 (as stated): a sendFeedback call with a valid payload whose request is
\* answered 2xx succeeds, whatever the response body is.
C15_FeedbackBodyIgnored ==
    (ev.kind \in {"return", "throw"} /\ ev.op = "feedback" /\ ev.outcome \in Answers2xx)
        => (ev.kind = "return" /\ ev.result = "ok")

\* C16 (as stated): a requestInquiryBlueprint call answered 2xx with a body
\* that is not a valid blueprint fails with ValidationError.
C16_MalformedIsValidationError ==
    (ev.kind \in {"return", "throw"} /\ ev.op = "blueprint"
         /\ ev.outcome \in Answers2xx \ {"OkValid"})
        => ev.result = "ValidationError"

\* C36: the step in which the network exchange of a call succeeds leaves
\* consecutiveFailures = 0, and a call that fails while the breaker is closed
\* leaves it closed as long as fewer than circuitBreakerThreshold calls have
\* failed since the last success: threshold - 1 failures, a success and
\* threshold - 1 more failures do not open the breaker.
C36_SuccessResetsCounter ==
    [][/\ ev'.kind = "return" => consecutiveFailures' = 0
       /\ (ev'.kind = "throw" /\ circuitState = "closed"
               /\ failRun' < config.circuitBreakerThreshold)
              => circuitState' = "closed"]_vars

C36_Witness ==
    /\ config.circuitBreakerThreshold = 2 /\ config.maxRetries = 0
    /\ started = 3 /\ InFlight = {}
    /\ ev.kind = "throw"
    /\ failRun = 1 /\ consecutiveFailures = 1
    /\ circuitState = "closed" /\ circuitOpenedAt = Null

\* C37 (as amended): the step in which a call admitted to the network ends
\* because its last attempt failed (with an error that is not retried, or
\* with the retries used up) adds exactly one to consecutiveFailures; the
\* start of a call, a failed attempt that is retried and the start of the
\* next attempt leave the counter as it is.  A call that ends with
\* ValidationError because the 2xx response is not a valid blueprint is not
\* such a call: for the breaker its exchange succeeded.
C37_OneCountPerFailedCall ==
    [][/\ ev'.kind = "throw" => consecutiveFailures' = consecutiveFailures + 1
       /\ ev'.kind \in {"call", "retry", "wake"}
              => consecutiveFailures' = consecutiveFailures]_vars

C37_Witness ==
    /\ ev.kind = "throw" /\ ev.outcome = "Http4xx" /\ ev.result = "ServiceError"
    /\ ev.fetches = 2 /\ ev.retryFails = 1
    /\ consecutiveFailures = 1

\* C37 (as stated): every call that passed the breaker check and ended in a
\* failure, whatever the failure, added exactly one to consecutiveFailures.
C37_Original ==
    [][(ev'.kind \in {"return", "throw"} /\ ev'.result # "ok")
          => consecutiveFailures' = consecutiveFailures + 1]_vars

\* C38 (as stated): whenever the breaker is open, consecutiveFailures is at
\* least circuitBreakerThreshold and circuitOpenedAt is set.
C38_OpenMeansThresholdReached ==
    circuitState = "open" =>
        (consecutiveFailures >= config.circuitBreakerThreshold /\ circuitOpenedAt # Null)

\* C39 (as stated): no network attempt starts while the breaker is open,
\* neither the first attempt of a call nor, after the backoff sleep, a retry
\* of a call admitted earlier.
C39_NoAttemptWhileOpen ==
    [][(\/ ev'.kind = "call" /\ ev'.result = "pending"
        \/ ev'.kind = "wake")
          => circuitState' # "open"]_vars

(***************************************************************************)
(* Properties of the error messages of HapClient (SpecRedact).             *)
(***************************************************************************)
\* C14 (as stated): the message of an error thrown by a call of the client
\* never contains the configured apiKey verbatim.
C14_NoCredentialInMessage ==
    thrown.cls # "none" => ~Includes(thrown.message, apiKey)

(***************************************************************************)
(* Properties of LocalHapProvider (SpecLocal, SpecLoad).                   *)
(***************************************************************************)
\* C20 (as stated): when the selector hands back null or an object that is
\* not one of the candidate objects it was given (the same object, not an
\* equal one), requestInquiryBlueprint throws; what it returns is always the
\* very object the selector handed back, and one of the candidates given.
C20_SelectorResultChecked ==
    /\ (/\ lev.kind \in {"return", "throw"}
        /\ Len(lev.candidates) > 0
        /\ \/ lev.returned.ref = Null
           \/ \A i \in 1..Len(lev.candidates) : lev.candidates[i] # lev.returned)
           => (lev.kind = "throw" /\ lev.result = NullObject)
    /\ lev.kind = "return" =>
           /\ lev.result = lev.returned
           /\ \E i \in 1..Len(lev.candidates) : lev.candidates[i] = lev.result

\* C21 (as stated): a blueprint returned by requestInquiryBlueprint has the
\* ladderStage and the agencyMode of the request and, when the request names
\* a stopPattern, a stopCondition equal to it, whatever the selector is.
C21_ReturnedMatchesRequest ==
    lev.kind = "return" =>
        /\ lev.result.bp.ladderStage = lev.request.ladderStage
        /\ lev.result.bp.agencyMode = lev.request.agencyMode
        /\ lev.request.stopPattern # "none" =>
               lev.result.bp.stopCondition = lev.request.stopPattern

\* the version parsed from the id of a blueprint object: 0 without a suffix
ParsedVersion(o) == IF o.bp.id.v = Null THEN 0 ELSE o.bp.id.v

\* C22: the candidates handed to the selector are in descending order of the
\* version parsed from their ids, an id without a version suffix counting as
\* version 0: no candidate stands before one of a strictly higher version.
C22_CandidatesSorted ==
    \A i, j \in 1..Len(lev.candidates) :
        i < j => ParsedVersion(lev.candidates[i]) >= ParsedVersion(lev.candidates[j])

\* a blueprint without a version suffix was loaded before a versioned one and
\* is handed to the selector after it
C22_Witness ==
    /\ lev.kind = "return"
    /\ Len(lev.candidates) = 2
    /\ lev.candidates[2].bp.id.v = Null
    /\ lev.candidates[1].bp.id.v # Null
    /\ lev.candidates[1].ref > lev.candidates[2].ref

\* C23 (amended): once a load has put at least one blueprint into the cache,
\* no later requestInquiryBlueprint call starts another load.
C23_PopulatedCacheReused ==
    [][(lstarted' # lstarted /\ loaded > 0 /\ Len(blueprintCache) > 0) => loads' = loads]_vars

\* a call made after a load that filled the cache: it starts no load
C23_Witness ==
    /\ lev.kind = "call"
    /\ lev.before > 0
    /\ lev.load = 0
    /\ Len(blueprintCache) > 0

\* C23 (as stated): once a call has completed its load, no later call starts
\* another load.
C23_LoadedOnce ==
    (lev.kind = "call" /\ lev.before > 0) => lev.load = 0

\* the blueprint the source holds last for the id of the cached object o
LastOfSource(o) ==
    source[CHOOSE i \in 1..Len(source) :
               /\ source[i].id = o.bp.id
               /\ \A j \in 1..Len(source) : source[j].id = o.bp.id => j <= i]

\* C24: however many loads have put their blueprints into the cache, it holds
\* one entry per blueprint id of the source, with the content a single load
\* leaves; and every call whose load succeeded, whose request has candidates
\* and whose selector picks a candidate returns a blueprint that is in the
\* cache and matches the request.
C24_RedundantLoadHarmless ==
    /\ loaded > 0 =>
           /\ \A i, j \in 1..Len(blueprintCache) :
                  i # j => blueprintCache[i].bp.id # blueprintCache[j].bp.id
           /\ {blueprintCache[i].bp.id : i \in 1..Len(blueprintCache)}
                  = {source[i].id : i \in 1..Len(source)}
           /\ \A i \in 1..Len(blueprintCache) :
                  blueprintCache[i].bp = LastOfSource(blueprintCache[i])
    /\ (/\ lev.kind \in {"return", "throw"}
        /\ lev.load > 0
        /\ lev.error # "LoadFailed"
        /\ Len(lev.candidates) > 0
        /\ selectorFn.kind = "candidate") =>
           /\ lev.kind = "return"
           /\ \E i \in 1..Len(blueprintCache) : blueprintCache[i] = lev.result
           /\ lev.result.bp.ladderStage = lev.request.ladderStage
           /\ lev.result.bp.agencyMode = lev.request.agencyMode

\* two first calls both loaded; the second load to end has replaced the two
\* objects of the first, and its call returns one of the new objects
C24_Witness ==
    /\ loaded = 2
    /\ lev.kind = "return"
    /\ lev.load = 2
    /\ lev.before = 1
    /\ Len(blueprintCache) = 2
    /\ lev.result.ref > Len(source)

C26_MeanTurnsOverResolved ==
    \A d \in DOMAIN metricsCache :
        d \in FeedbackIds =>
            metricsCache[d].averageTurns.num * (IF fhist[d].turnN = 0 THEN 1 ELSE fhist[d].turnN)
                = fhist[d].turnSum * metricsCache[d].averageTurns.den

\* C27 (as stated): the phaseAdvanceRate stored for a blueprint id is the
\* number of feedback events carrying both phases with previousPhase #
\* currentPhase, divided by the number of events carrying both phases.
C27_AdvanceRateOverStagedEvents ==
    \A d \in DOMAIN metricsCache :
        (d \in FeedbackIds /\ fhist[d].bothN > 0) =>
            /\ metricsCache[d].phaseAdvanceRate # Undefined
            /\ metricsCache[d].phaseAdvanceRate.num * fhist[d].bothN
                   = fhist[d].advN * metricsCache[d].phaseAdvanceRate.den

InUnitInterval(q) == q.den > 0 /\ 0 <= q.num /\ q.num <= q.den

\* C28: every stored metrics record has resolutionRate in [0, 1],
\* averageTurns >= 0 and, when it is there, phaseAdvanceRate in [0, 1].
C28_MetricsInRange ==
    \A d \in DOMAIN metricsCache :
        /\ InUnitInterval(metricsCache[d].resolutionRate)
        /\ metricsCache[d].averageTurns.den > 0
        /\ metricsCache[d].averageTurns.num >= 0
        /\ \/ metricsCache[d].phaseAdvanceRate = Undefined
           \/ InUnitInterval(metricsCache[d].phaseAdvanceRate)

\* a record with a rate strictly between 0 and 1, a positive averageTurns
\* that came from a negative turnsDelta, and a phaseAdvanceRate
C28_Witness ==
    \E d \in DOMAIN metricsCache :
        /\ 0 < metricsCache[d].resolutionRate.num
        /\ metricsCache[d].resolutionRate.num < metricsCache[d].resolutionRate.den
        /\ metricsCache[d].averageTurns = Rational(MaxTurns, 1)
        /\ metricsCache[d].phaseAdvanceRate # Undefined
        /\ metricsCache[d].phaseAdvanceRate.num > 0

\* C29: a sendFeedback call whose payload has no blueprintId, or an empty
\* one, throws and leaves the stored metrics exactly as they were.
C29_MissingIdChangesNothing ==
    [][(feedbacks' # feedbacks /\ fev'.blueprintId \in {Absent, ""})
           => (fev'.kind = "throw" /\ metricsCache' = metricsCache)]_vars

\* a payload with an empty blueprintId was refused with metrics in store
C29_Witness ==
    /\ fev.kind = "throw"
    /\ fev.blueprintId = ""
    /\ metricsCache # EmptyMap

(***************************************************************************)
(* Properties of the metrics handed to the selector (SpecSnapshot).        *)
(***************************************************************************)
\* C30 (as stated): a requestInquiryBlueprint call, whatever its selector
\* does with the metrics map it receives, leaves the stored metrics as they
\* were: only sendFeedback changes them.
C30_SnapshotReadOnly ==
    [][feedbacks' = feedbacks => metricsCache' = metricsCache]_vars


(***************************************************************************)
(* The provider contract of LocalHapProvider (SpecSwap).                   *)
(***************************************************************************)
\* C31 (as stated): a requestInquiryBlueprint call of the local provider with
\* a request that fails the shape check of InquiryRequestSchema ends by
\* throwing a ValidationError, as the same call of HapClient does (C9); calls
\* that end earlier because the blueprints could not be loaded are left aside.
C31_MalformedRequestRejected ==
    (/\ lev.kind \in {"return", "throw"}
     /\ lev.error # "LoadFailed"
     /\ ~InquiryRequestSchema(lev.request))
        => (lev.kind = "throw" /\ lev.error = "ValidationError")


(***************************************************************************)
(* Properties of GuardedAction (SpecAction, SpecBridge).                   *)
(***************************************************************************)
\* C32: proceed called on a stopped object runs no action and throws an
\* UnresolvedStopError that carries the ladder stage of the object and the
\* fixed stop condition "both"; this holds for every stopped object, whether
\* or not resolve has been called on it, since resolve leaves it as it is.
C32_StoppedProceedThrows ==
    [][(aev'.op = "proceed" /\ objects[aev'.on].stopped)
          => /\ executed' = executed
             /\ ~aev'.ran
             /\ aev'.threw = "UnresolvedStopError"
             /\ aev'.details = [stopCondition |-> "both",
                                ladderStage |-> objects[aev'.on].ladderStage]]_vars

C32_Witness ==
    /\ aev.op = "proceed"
    /\ objects[aev.on].stopped
    /\ objects[aev.on].ladderStage = "purpose"
    /\ aev.threw = "UnresolvedStopError"
    /\ \A i \in 1..Len(objects) : objects[i].stopped

\* an optional property that is not there at all
Lacking(result) ==
    \/ ~result.question.defined
    \/ ~result.blueprintId.defined
    \/ ~result.ladderStage.defined

\* C33: fromClarificationResult given a result with clarified = false that
\* lacks question, blueprintId or ladderStage throws an Error and builds no
\* object; given a result with clarified = true it returns a new resolved
\* object.
C33_UnclarifiedNeedsAllThree ==
    [][aev'.op = "fromClarificationResult"
          => /\ (~aev'.input.clarified /\ Lacking(aev'.input))
                    => (aev'.threw = "Error" /\ aev'.result = 0 /\ objects' = objects)
             /\ aev'.input.clarified
                    => /\ aev'.threw = "none"
                       /\ aev'.result = Len(objects) + 1
                       /\ objects' = Append(objects, [stopped |-> FALSE, question |-> <<>>,
                                                      blueprintId |-> "", ladderStage |-> "",
                                                      answer |-> None("")])]_vars

C33_Witness ==
    /\ aev.op = "fromClarificationResult"
    /\ ~aev.input.clarified
    /\ aev.input.question = Some(<<"q">>)
    /\ aev.input.blueprintId = Some("bp1")
    /\ ~aev.input.ladderStage.defined
    /\ aev.threw = "Error"
    /\ objects = <<>>

\* C35 (as stated): fromClarificationResult applied to what ensureClarified
\* returned builds an object: a stopped one with the question and the
\* blueprint id of the result when the call had stopTrigger = true, a resolved
\* one when it had stopTrigger = false.
C35_BuiltFromGuardResult ==
    [][UNCHANGED guardVars
          => /\ Len(objects') = Len(objects) + 1
             /\ LET o == objects'[Len(objects')]
                IN  IF gev.stopTrigger
                    THEN /\ o.stopped
                         /\ o.question = gev.question
                         /\ o.blueprintId = gev.blueprintId
                    ELSE ~o.stopped]_vars

(***************************************************************************)
(* Properties of QuestionOutcomeLogger (SpecLogger).                       *)
(***************************************************************************)
\* C34: after any sequence of log calls the buffer holds the last
\* min(n, maxBufferSize) of the n outcomes logged, in the order they were
\* logged, and so never more than maxBufferSize of them.
C34_BufferHoldsMostRecent ==
    LET n == Len(logged)
        k == IF n < maxBufferSize THEN n ELSE maxBufferSize
    IN  /\ buffer = SubSeq(logged, n - k + 1, n)
        /\ Len(buffer) <= maxBufferSize

C34_Witness ==
    /\ maxBufferSize = 2
    /\ Len(logged) = maxBufferSize + 2
    /\ logged[1] = "o1" /\ logged[2] = "o1"
    /\ buffer = <<"o2", "o1">>


(***************************************************************************)
(* Recovery of the circuit breaker (SpecRecover).                          *)
(***************************************************************************)
\* C40: if calls with a valid payload keep being made and from some point on
\* every network attempt that settles succeeds, then from some point on the
\* breaker is closed and stays closed.
C40_BreakerRecovers ==
    ([]<><<validCall>>_vars /\ <>[]healthy) => <>[](circuitState = "closed")

C40_Witness ==
    /\ healthy
    /\ ev.kind = "return" /\ ev.pre = "half-open"
    /\ circuitState = "closed"
    /\ now > Horizon

====
